---------------------------- MODULE Spec2Model ----------------------------
(***************************************************************************)
(* Contextual scoring engine (api/services/scoring_engine.py), batch       *)
(* scoring router (api/routers/scoring.py) and keyword rotation selector   *)
(* (api/services/youtube_service.py).                                      *)
(*                                                                         *)
(* Numbers: every float of the program is an integer number of            *)
(* hundred-thousandths (One = 1.0), so that the weighted sums and the      *)
(* thresholds of the decision tables are exact.  The selector's weights    *)
(* are integers and its quotients are compared as exact fractions.         *)
(***************************************************************************)
EXTENDS Integers, Sequences, FiniteSets, TLC

VARIABLES
    rcIn, rcOut,                    \* _determine_recommendation: inputs, result
    selIn, selOut, selRaised, selPhase, \* _select_keywords_for_rotation
    nmIn, nmOut, nmFallback, nmPhase,   \* _payload_from_llm, _fallback_payload
    scores,                         \* the video_scores table
    pc, cur, session,               \* per process: step, call in progress, session
    out,                            \* per process: outcome of its last single call
    batch,                          \* the batch request, its results and errors
    lastOk, overlapped,             \* history: last committed payload, overlap
    calls, dbFailures,              \* history: calls begun, injected failures
    tables, clock,                  \* keywords and youtube_videos rows; the time
    fetch, everSelected,            \* last fetch cycle; ids selected so far
    channels,                       \* the youtube_channels table: channel ids
    sim,                            \* _heuristic_nlp similarity: token sets, score
    emo                             \* _heuristic_nlp emotion score: hits, score

varsRec == <<rcIn, rcOut>>
varsSel == <<selIn, selOut, selRaised, selPhase>>
varsNorm == <<nmIn, nmOut, nmFallback, nmPhase>>
varsScore == <<scores, pc, cur, session, out, batch, lastOk, overlapped,
               calls, dbFailures>>
varsFetch == <<tables, clock, fetch, everSelected, channels>>
varsSim == <<sim>>
varsEmo == <<emo>>
vars == <<rcIn, rcOut, selIn, selOut, selRaised, selPhase,
          nmIn, nmOut, nmFallback, nmPhase,
          scores, pc, cur, session, out, batch, lastOk, overlapped,
          calls, dbFailures,
          tables, clock, fetch, everSelected, channels,
          sim, emo>>

(***************************************************************************)
(* Generic helpers.                                                        *)
(***************************************************************************)
One == 100000

Min2(a, b) == IF a <= b THEN a ELSE b
Max2(a, b) == IF a >= b THEN a ELSE b

RECURSIVE SumSeq(_)
SumSeq(s) == IF s = <<>> THEN 0 ELSE Head(s) + SumSeq(Tail(s))

Range(s) == {s[i] : i \in 1..Len(s)}

\* F(v) with v evaluated once: a local variable of the code.
With(v, F(_)) == CHOOSE r \in {F(x) : x \in {v}} : TRUE

(***************************************************************************)
(* Enumerations of api/models.py.                                          *)
(***************************************************************************)
BrandSafetyStatus == {"safe", "review", "unsafe"}
BrandSuitability == {"high", "medium", "low"}
Sentiment == {"positive", "neutral", "negative"}
TargetingRecommendation == {"strong_match", "moderate_match", "weak_match", "avoid"}

(***************************************************************************)
(* ScoringEngine._determine_recommendation: the ordered rule table.        *)
(***************************************************************************)
DetermineRecommendationSwapped(contextual_score, brand_suitability, brand_safety_status) ==
    IF brand_safety_status = "unsafe" THEN <<"avoid", 0>>
    ELSE IF contextual_score >= 60000 /\ brand_suitability \in {"high", "medium"}
        THEN <<"moderate_match", 110000>>
    ELSE IF contextual_score >= 80000 /\ brand_suitability = "high"
        THEN <<"strong_match", 135000>>
    ELSE IF contextual_score >= 40000 THEN <<"weak_match", 90000>>
    ELSE <<"avoid", 0>>

DetermineRecommendation(contextual_score, brand_suitability, brand_safety_status) ==
    IF brand_safety_status = "unsafe" THEN <<"avoid", 0>>
    ELSE IF contextual_score >= 80000 /\ brand_suitability = "high"
        THEN <<"strong_match", 135000>>
    ELSE IF contextual_score >= 60000 /\ brand_suitability \in {"high", "medium"}
        THEN <<"moderate_match", 110000>>
    ELSE IF contextual_score >= 40000 THEN <<"weak_match", 90000>>
    ELSE <<"avoid", 0>>

(***************************************************************************)
(* ScoringEngine._determine_brand_suitability.                             *)
(***************************************************************************)
DetermineBrandSuitability(contextual_score, brand_safety_status, sentiment) ==
    IF brand_safety_status = "unsafe" THEN "low"
    ELSE IF contextual_score >= 75000 /\ sentiment = "positive" THEN "high"
    ELSE IF contextual_score >= 50000 THEN "medium"
    ELSE "low"

(***************************************************************************)
(* Keyword rotation selector: YouTubeService._select_keywords_for_rotation *)
(* A keyword is [id, keyword_type, total_results, last_fetched_at,         *)
(* relevance_score]; last_fetched_at = 0 is "never fetched" (datetime.min).*)
(***************************************************************************)
KeywordType == {"core", "long-tail", "related", "intent-based"}

\* ordered_types of the selector.
OrderedTypes == <<"core", "related", "intent-based", "long-tail">>

\* KeywordType is a str enum: members compare as their string values.
TypeRank(t) ==
    CASE t = "core" -> 1
      [] t = "intent-based" -> 2
      [] t = "long-tail" -> 3
      [] t = "related" -> 4

\* the more relevant keyword first, whatever was fetched
RelevanceOnlyLess(a, b) == (0 - a.relevance_score) < (0 - b.relevance_score)

\* keyword_priority_key(a) < keyword_priority_key(b), as tuples.
PriorityKeyLess(a, b) ==
    \/ a.total_results < b.total_results
    \/ /\ a.total_results = b.total_results
       /\ a.last_fetched_at < b.last_fetched_at
    \/ /\ a.total_results = b.total_results
       /\ a.last_fetched_at = b.last_fetched_at
       /\ (0 - a.relevance_score) < (0 - b.relevance_score)

\* list.sort(key=keyword_priority_key): ascending and stable, so s[j] comes
\* before s[i] when its key is smaller, or equal with j < i.
SortByPriority(list) ==
    With(list, LAMBDA s :
        LET Before(j, i) ==
                \/ PriorityKeyLess(s[j], s[i])
                \/ ~PriorityKeyLess(s[i], s[j]) /\ j < i
        IN [p \in 1..Len(s) |->
                s[CHOOSE i \in 1..Len(s) :
                    Cardinality({j \in 1..Len(s) : Before(j, i)}) = p - 1]])

\* keywords_by_type[t], sorted.
Bucket(keywords, t) ==
    SortByPriority(SelectSeq(keywords, LAMBDA k : k.keyword_type = t))

\* len(keywords_by_type[t]) for every type.
BucketSizes(keywords) ==
    [t \in KeywordType |->
        Cardinality({i \in 1..Len(keywords) : keywords[i].keyword_type = t})]

\* available_types: the ordered types with a non-empty bucket (every member of
\* the enum is in ordered_types, so extra_types is empty).
AvailableTypes(size) ==
    SelectSeq(OrderedTypes, LAMBDA t : size[t] > 0)

\* max(weights.get(t, 0.0), 0.0)
ClippedWeight(weights, t) == Max2(weights[t], 0)

PositiveWeightSum(av, weights) ==
    SumSeq([i \in 1..Len(av) |-> ClippedWeight(weights, av[i])])

\* normalized_weights[t] = WeightNums[t] / WeightDen: the uniform fallback when
\* the positive weight sum is not positive.
WeightDenUnnormalized(av, weights) ==
    IF PositiveWeightSum(av, weights) <= 0 THEN 1 ELSE PositiveWeightSum(av, weights)

WeightDen(av, weights) ==
    IF PositiveWeightSum(av, weights) <= 0 THEN Len(av) ELSE PositiveWeightSum(av, weights)

WeightNums(av, weights) ==
    LET pws == PositiveWeightSum(av, weights)
    IN [t \in KeywordType |-> IF pws <= 0 THEN 1 ELSE ClippedWeight(weights, t)]

\* no base take at all
BaseTakesNone(size, budget, num, den) == [t \in KeywordType |-> 0]

\* base_take = min(len(bucket), int(desired)), desired = budget * weight.
BaseTakes(size, budget, num, den) ==
    [t \in KeywordType |->
        IF size[t] > 0 THEN Min2(size[t], (budget * num[t]) \div den) ELSE 0]

\* (desired - base_take) * WeightDen: the remainders share one denominator.
FractionNums(budget, num, den, base) ==
    [t \in KeywordType |-> budget * num[t] - base[t] * den]

\* fractional_allocation.sort(reverse=True): descending by (fraction, type).
FractionalOrderAscending(av, frac) ==
    LET avset == Range(av)
        Gt(a, b) == \/ frac[a] < frac[b]
                    \/ frac[a] = frac[b] /\ TypeRank(a) < TypeRank(b)
    IN [i \in 1..Len(av) |->
            CHOOSE t \in avset : Cardinality({u \in avset : Gt(u, t)}) = i - 1]

FractionalOrder(av, frac) ==
    LET avset == Range(av)
        Gt(a, b) == \/ frac[a] > frac[b]
                    \/ frac[a] = frac[b] /\ TypeRank(a) > TypeRank(b)
    IN [i \in 1..Len(av) |->
            CHOOSE t \in avset : Cardinality({u \in avset : Gt(u, t)}) = i - 1]

\* The while loop of the remainder distribution.
RECURSIVE RemainderLoop(_, _, _, _, _, _)
RemainderLoop(size, order, allocation, remaining_slots, idx, iterations) ==
    IF remaining_slots > 0 /\ Len(order) > 0 /\ iterations < Max2(Len(order) * 5, 1)
    THEN LET t == order[(idx % Len(order)) + 1]
         IN IF allocation[t] < size[t]
            THEN RemainderLoop(size, order, [allocation EXCEPT ![t] = @ + 1],
                               remaining_slots - 1, idx + 1, iterations + 1)
            ELSE RemainderLoop(size, order, allocation,
                               remaining_slots, idx + 1, iterations + 1)
    ELSE [allocation |-> allocation, remaining_slots |-> remaining_slots]

\* Allocation after the base takes and the remainder distribution.
AfterRemainder(size, budget, weights) ==
    With(AvailableTypes(size), LAMBDA av :
    With(WeightNums(av, weights), LAMBDA num :
    With(WeightDen(av, weights), LAMBDA den :
    With(BaseTakes(size, budget, num, den), LAMBDA base :
    With(budget - SumSeq([i \in 1..Len(av) |-> base[av[i]]]), LAMBDA remaining_slots :
        IF remaining_slots > 0
        THEN With(FractionNums(budget, num, den, base), LAMBDA frac :
             With(FractionalOrder(av, frac), LAMBDA order :
                RemainderLoop(size, order, base, remaining_slots, 0, 0)))
        ELSE [allocation |-> base, remaining_slots |-> remaining_slots])))))

\* prioritized_types: sorted(available_types, key=(weight, bucket size),
\* reverse=True); equal keys keep the order of available_types.
PrioritizedTypes(av, num, size) ==
    LET avset == Range(av)
        Pos(t) == CHOOSE i \in 1..Len(av) : av[i] = t
        Before(a, b) ==
            \/ num[a] > num[b]
            \/ num[a] = num[b] /\ size[a] > size[b]
            \/ num[a] = num[b] /\ size[a] = size[b] /\ Pos(a) < Pos(b)
    IN [i \in 1..Len(av) |->
            CHOOSE t \in avset : Cardinality({u \in avset : Before(u, t)}) = i - 1]

\* a fallback that hands out nothing
FallbackFillNothing(size, order, i, allocation, remaining_slots) ==
    [allocation |-> allocation, remaining_slots |-> remaining_slots]

\* The graceful fallback: fill by weight priority wherever capacity exists.
RECURSIVE FallbackFill(_, _, _, _, _)
FallbackFill(size, order, i, allocation, remaining_slots) ==
    IF i > Len(order) THEN [allocation |-> allocation, remaining_slots |-> remaining_slots]
    ELSE LET t == order[i]
             add == Max2(0, Min2(remaining_slots, size[t] - allocation[t]))
         IN FallbackFill(size, order, i + 1,
                         [allocation EXCEPT ![t] = @ + add], remaining_slots - add)

\* allocation[t] when the selected keywords are collected.
Allocation(size, budget, weights) ==
    With(AfterRemainder(size, budget, weights), LAMBDA r :
        IF r.remaining_slots > 0
        THEN With(AvailableTypes(size), LAMBDA av :
             With(WeightNums(av, weights), LAMBDA num :
             With(PrioritizedTypes(av, num, size), LAMBDA order :
                FallbackFill(size, order, 1, r.allocation, r.remaining_slots).allocation)))
        ELSE r.allocation)

\* The loops that collect keywords: appends the keywords of cand whose id is not
\* selected yet, in order, and stops after limit of them.
AppendNew(selected, cand, limit) ==
    With({i \in 1..Len(cand) :
            /\ \A j \in 1..Len(selected) : selected[j].id # cand[i].id
            /\ \A j \in 1..(i - 1) : cand[j].id # cand[i].id}, LAMBDA fresh :
    With({i \in fresh : Cardinality({j \in fresh : j < i}) < limit}, LAMBDA kept :
        selected \o [p \in 1..Cardinality(kept) |->
            cand[CHOOSE i \in kept : Cardinality({j \in kept : j < i}) = p - 1]]))

\* bucket[:take] of every available type, in the order of available_types (a
\* type without keywords has an empty bucket).
TakenOffByOne(keywords, size, allocation) ==
    LET Part(t) == SubSeq(Bucket(keywords, t), 1, Min2(allocation[t] + 1, size[t]))
    IN Part(OrderedTypes[1]) \o Part(OrderedTypes[2])
        \o Part(OrderedTypes[3]) \o Part(OrderedTypes[4])

Taken(keywords, size, allocation) ==
    LET Part(t) == SubSeq(Bucket(keywords, t), 1, Min2(allocation[t], size[t]))
    IN Part(OrderedTypes[1]) \o Part(OrderedTypes[2])
        \o Part(OrderedTypes[3]) \o Part(OrderedTypes[4])

\* keywords_by_type.items(): the types in the order of their first keyword.
DictOrder(keywords) ==
    LET present == {keywords[i].keyword_type : i \in 1..Len(keywords)}
        First(t) == CHOOSE i \in 1..Len(keywords) :
                        /\ keywords[i].keyword_type = t
                        /\ \A j \in 1..(i - 1) : keywords[j].keyword_type # t
    IN [p \in 1..Cardinality(present) |->
            CHOOSE t \in present :
                Cardinality({u \in present : First(u) < First(t)}) = p - 1]

\* leftover_candidates, sorted by priority.
Leftover(keywords, size, allocation) ==
    With(DictOrder(keywords), LAMBDA ts :
        LET Part(i) == IF i > Len(ts) THEN <<>>
                       ELSE SubSeq(Bucket(keywords, ts[i]), allocation[ts[i]] + 1, size[ts[i]])
        IN With(Part(1) \o Part(2) \o Part(3) \o Part(4), LAMBDA cand :
                SortByPriority(cand)))

\* selection_summary of the selected keywords.
SelectionSummary(selected) ==
    [t \in KeywordType |->
        Cardinality({i \in 1..Len(selected) : selected[i].keyword_type = t})]

\* The whole function: raised (ValueError), or (selected, selection_summary).
SelectKeywordsForRotation(keywords, max_keyword_budget, weights) ==
    LET budget == Min2(Len(keywords), max_keyword_budget)
        none == [raised |-> TRUE, selected |-> <<>>,
                 mix |-> [t \in KeywordType |-> 0]]
    IN IF keywords = <<>> \/ budget <= 0 THEN none
       ELSE With(BucketSizes(keywords), LAMBDA size :
            With(Allocation(size, budget, weights), LAMBDA allocation :
            With(AppendNew(<<>>, Taken(keywords, size, allocation), Len(keywords)),
                 LAMBDA first :
            With(IF Len(first) < budget
                 THEN AppendNew(first, Leftover(keywords, size, allocation),
                                budget - Len(first))
                 ELSE first, LAMBDA selected :
                IF selected = <<>> THEN none
                ELSE [raised |-> FALSE, selected |-> selected,
                      mix |-> SelectionSummary(selected)]))))

(***************************************************************************)
(* JSON values as the normalizer meets them.  A value is a record: t is    *)
(* its Python type, n its number (hundred-thousandths; 1/0 for a bool; the *)
(* number of keys of an object), s its text, l its list of strings.        *)
(***************************************************************************)
Absent == [t |-> "absent", n |-> 0, s |-> "", l |-> <<>>]
Null == [t |-> "null", n |-> 0, s |-> "", l |-> <<>>]
NaN == [t |-> "nan", n |-> 0, s |-> "", l |-> <<>>]
Num(x) == [t |-> "num", n |-> x, s |-> "", l |-> <<>>]
Bool(b) == [t |-> "bool", n |-> IF b THEN 1 ELSE 0, s |-> "", l |-> <<>>]
Str(x) == [t |-> "str", n |-> 0, s |-> x, l |-> <<>>]
List(x) == [t |-> "list", n |-> 0, s |-> "", l |-> x]
Obj(k) == [t |-> "obj", n |-> k, s |-> "", l |-> <<>>]

\* bool(value)
Truthy(v) ==
    CASE v.t \in {"absent", "null"} -> FALSE
      [] v.t = "nan" -> TRUE
      [] v.t \in {"num", "bool", "obj"} -> v.n # 0
      [] v.t = "str" -> v.s # ""
      [] v.t = "list" -> v.l # <<>>

\* value or default
OrElse(v, d) == IF Truthy(v) THEN v ELSE d

\* str.strip().lower() on the texts of the instances
StripLower(s) ==
    CASE s = " Unsafe " -> "unsafe"
      [] s = "HIGH" -> "high"
      [] s = "Positive" -> "positive"
      [] s = " Avoid" -> "avoid"
      [] s = "Happy " -> "happy"
      [] s = " Calm" -> "calm"
      [] s = " " -> ""
      [] OTHER -> s

\* float(text): <<parsed, is nan, number>>
ParseFloat(s) ==
    CASE s = "0.5" -> <<TRUE, FALSE, 50000>>
      [] s = " 0.9 " -> <<TRUE, FALSE, 90000>>
      [] s = "1.7" -> <<TRUE, FALSE, 170000>>
      [] s = "nan" -> <<TRUE, TRUE, 0>>
      [] OTHER -> <<FALSE, FALSE, 0>>

\* float(value): <<converted, is nan, number>>; not converted is the
\* ValueError of a text that is no number and the TypeError of None, a list
\* or an object.
FloatOf(v) ==
    CASE v.t = "num" -> <<TRUE, FALSE, v.n>>
      [] v.t = "bool" -> <<TRUE, FALSE, v.n * One>>
      [] v.t = "nan" -> <<TRUE, TRUE, 0>>
      [] v.t = "str" -> ParseFloat(v.s)
      [] OTHER -> <<FALSE, FALSE, 0>>

FloatError(v) == IF v.t = "str" THEN "ValueError" ELSE "TypeError"

\* The number as it came, without the clamp (hi for a nan).
ClampNothing(f, lo, hi) == IF f[2] THEN hi ELSE f[3]

\* max(lo, min(hi, num)): num < hi is false for nan, so min keeps hi.
Clamp(f, lo, hi) == IF f[2] THEN Max2(lo, hi) ELSE Max2(lo, Min2(hi, f[3]))

\* round(x, digits) for a non-negative x, unit = 10^(5 - digits); ties to even
RoundTo(x, unit) ==
    With(x \div unit, LAMBDA q :
    With(x % unit, LAMBDA r :
        unit * (IF 2 * r > unit \/ (2 * r = unit /\ q % 2 = 1) THEN q + 1 ELSE q)))

\* the quotient num / den rounded to thousandths, in hundred-thousandths
RoundDiv3(num, den) ==
    With((1000 * num) \div den, LAMBDA q :
    With((1000 * num) % den, LAMBDA r :
        100 * (IF 2 * r > den \/ (2 * r = den /\ q % 2 = 1) THEN q + 1 ELSE q)))

\* the elements of a list that satisfy Keep, in order
SelectIdx(s, Keep(_)) == {i \in 1..Len(s) : Keep(s[i])}
FilterSeq(s, Keep(_)) ==
    With(SelectIdx(s, Keep), LAMBDA idx :
        [k \in 1..Cardinality(idx) |->
            s[CHOOSE i \in idx : Cardinality({j \in idx : j < i}) = k - 1]])

\* list[:n]
Prefix(s, n) == SubSeq(s, 1, Min2(n, Len(s)))

\* the first occurrence of every element, in order: dict.fromkeys
Dedupe(s) ==
    With({i \in 1..Len(s) : \A j \in 1..(i - 1) : s[j] # s[i]}, LAMBDA idx :
        [k \in 1..Cardinality(idx) |->
            s[CHOOSE i \in idx : Cardinality({j \in idx : j < i}) = k - 1]])

(***************************************************************************)
(* Heuristic signals of the scoring engine.  A text is the list of its     *)
(* tokens ([a-z0-9]+ runs, lower case); a campaign is [id, name, text], a  *)
(* video is [id, campaign_id, video_id, title, description, tags].         *)
(***************************************************************************)
POSITIVE_TERMS ==
    {"best", "ultimate", "win", "exciting", "innovative", "amazing", "love",
     "top", "guide", "review", "how"}
NEGATIVE_TERMS ==
    {"hate", "worst", "fail", "angry", "problem", "bad", "tragic", "disaster",
     "break", "complaint"}
RISKY_TERMS ==
    {"violence", "fight", "gun", "weapon", "leak", "politics", "nsfw",
     "accident", "gambling", "adult", "hate"}
REVIEW_TERMS == {"prank", "drama", "controversy"}
EMOTION_OPTIONS ==
    {"joyful", "excited", "inspired", "nostalgic", "calm", "serious",
     "critical", "persuasive", "neutral"}
IntentTerms == {"how", "review", "guide", "tutorial", "tips", "versus", "compare"}

\* f"{title} {description} {tags}" tokenized
VideoTokens(video) == video.title \o video.description \o video.tags

\* "term in text" is a substring test: the words of the instances that hold
\* a term inside them.
SubstringPairs == {<<"whatever", "hate">>, <<"shotgun", "gun">>}
TextContains(tokens, terms) ==
    \E i \in 1..Len(tokens) : \E term \in terms :
        tokens[i] = term \/ <<tokens[i], term>> \in SubstringPairs

CountIn(tokens, terms) == Cardinality({i \in 1..Len(tokens) : tokens[i] \in terms})

\* the shared tokens over the smaller of the two sets
SimilarityOfSmaller(video_set, campaign_set) ==
    IF video_set = {} \/ campaign_set = {} THEN <<0, 1>>
    ELSE <<Cardinality(video_set \cap campaign_set),
           Min2(Cardinality(video_set), Cardinality(campaign_set))>>

\* similarity as the fraction <<|V & C|, |V | C|>>
Similarity(video_set, campaign_set) ==
    IF video_set = {} \/ campaign_set = {} THEN <<0, 1>>
    ELSE <<Cardinality(video_set \cap campaign_set),
           Cardinality(video_set \cup campaign_set)>>

\* the semantic_similarity_score that _heuristic_nlp returns:
\* round(similarity, 3)
SemanticSimilarityScore(video_set, campaign_set) ==
    With(Similarity(video_set, campaign_set), LAMBDA similarity :
        RoundDiv3(similarity[1], similarity[2]))

HeuristicSentiment(positive_hits, negative_hits) ==
    IF positive_hits > negative_hits + 1 THEN "positive"
    ELSE IF negative_hits > positive_hits + 1 THEN "negative"
    ELSE "neutral"

InferIntentType(tokens) ==
    IF Range(tokens) \cap {"buy", "deal", "sale", "price", "review", "vs"} # {}
        THEN "commercial"
    ELSE IF Range(tokens) \cap {"how", "guide", "tips", "tutorial"} # {}
        THEN "informational"
    ELSE "entertainment"

InferInterestTopics(video) ==
    IF video.tags # <<>> THEN Prefix(video.tags, 3)
    ELSE Dedupe(Prefix(video.title, 3))

InferEmotionType(sentiment, tokens) ==
    With(Range(tokens), LAMBDA ts :
        IF sentiment = "negative" THEN "critical"
        ELSE IF ts \cap {"unboxing", "launch", "premiere", "event", "live"} # {}
            THEN "excited"
        ELSE IF ts \cap {"deal", "offer", "sale", "discount", "buy", "best"} # {}
            THEN "persuasive"
        ELSE IF ts \cap {"how", "guide", "tutorial", "learn", "tips"} # {}
            THEN "inspired"
        ELSE IF ts \cap {"history", "retro", "throwback", "classic", "nostalgia"} # {}
            THEN "nostalgic"
        ELSE IF ts \cap {"relax", "relaxing", "meditation", "ambient", "calm"} # {}
            THEN "calm"
        ELSE IF ts \cap {"analysis", "review", "breakdown", "comparison", "vs"} # {}
            THEN "serious"
        ELSE IF sentiment = "positive" THEN "joyful"
        ELSE "neutral")

InferTone(sentiment, tokens) ==
    With(Range(tokens), LAMBDA ts :
        IF ts \cap {"unboxing", "launch", "event", "live"} # {}
            THEN "enthusiastic and informative"
        ELSE IF ts \cap {"deal", "offer", "sale", "discount", "buy"} # {}
            THEN "urgent and persuasive"
        ELSE IF ts \cap {"review", "analysis", "breakdown", "comparison", "vs"} # {}
            THEN "analytical and balanced"
        ELSE IF ts \cap {"history", "retro", "classic", "nostalgia"} # {}
            THEN "nostalgic and emotive"
        ELSE IF ts \cap {"calm", "relax", "meditation", "ambient"} # {}
            THEN "calm and reflective"
        ELSE IF sentiment = "negative" THEN "critical and candid"
        ELSE IF ts \cap {"tips", "guide", "tutorial", "learn"} # {}
            THEN "warm and conversational"
        ELSE "promotional and enticing")

\* The orders in which a set can be listed.
Perms(S) ==
    {p \in [1..Cardinality(S) -> S] : \A i, j \in 1..Cardinality(S) : p[i] = p[j] => i = j}

\* sorted(set, key=len, reverse=True): words of one length keep the order in
\* which the set lists them, which the hash seed of the process decides.
SortedByLenDesc(S) ==
    {p \in Perms(S) : \A i, j \in 1..Cardinality(S) : i < j => Len(p[i]) >= Len(p[j])}

\* What the iteration orders of video_set & campaign_set and of video_set
\* can make of key_topics: the local list (line 162-164) and the returned one.
KeyTopicsChoices(campaign, video) ==
    With(Range(VideoTokens(video)), LAMBDA video_set :
    With(video_set \cap Range(campaign.text), LAMBDA common :
        IF common # {}
            THEN {[local |-> Prefix(p, 5), returned |-> Prefix(p, 5)] :
                    p \in SortedByLenDesc(common)}
        ELSE IF video.tags # <<>>
            THEN {[local |-> Prefix(video.tags, 5), returned |-> Prefix(video.tags, 5)]}
        ELSE {[local |-> <<>>, returned |-> Prefix(p, 5)] : p \in Perms(video_set)}))

KeyEntities(video) ==
    Prefix(Dedupe(FilterSeq(video.title, LAMBDA word : Len(word) > 3)), 3)

\* (positive_hits + 1) / (positive_hits + negative_hits + 1) between 0.1 and 1
EmotionScoreUnguarded(positive_hits, negative_hits) ==
    Min2(One, Max2(One \div 10,
                   RoundDiv3(positive_hits + 1, positive_hits + negative_hits + 1)))

\* total_hits = positive_hits + negative_hits or 1;
\* emotion_score = min(1.0, max(0.1, (positive_hits + 1) / (total_hits + 1))),
\* returned as round(emotion_score, 3)
EmotionScore(positive_hits, negative_hits) ==
    With(IF positive_hits + negative_hits = 0 THEN 1
         ELSE positive_hits + negative_hits, LAMBDA total_hits :
        Min2(One, Max2(One \div 10, RoundDiv3(positive_hits + 1, total_hits + 1))))

\* _heuristic_nlp, with the listing of the key topics that the run produced
HeuristicNlp(campaign, video, key_topics) ==
    With(VideoTokens(video), LAMBDA video_tokens :
    With(Similarity(Range(video_tokens), Range(campaign.text)), LAMBDA similarity :
    With(Cardinality(IntentTerms \cap Range(video_tokens)), LAMBDA intent_hits :
    With(Min2(25, 2 * Len(video.tags)), LAMBDA tag_bonus :
    With(CountIn(video_tokens, POSITIVE_TERMS), LAMBDA positive_hits :
    With(CountIn(video_tokens, NEGATIVE_TERMS), LAMBDA negative_hits :
    With(HeuristicSentiment(positive_hits, negative_hits), LAMBDA sentiment :
        [semantic_similarity_score |->
            SemanticSimilarityScore(Range(video_tokens), Range(campaign.text)),
         intent_score |->
            Min2(One, RoundDiv3((35 + 10 * intent_hits) * similarity[2]
                                    + 40 * similarity[1], 100 * similarity[2])),
         interest_score |->
            Min2(One, RoundDiv3(70 * similarity[1]
                                    + (tag_bonus + 10) * similarity[2],
                                100 * similarity[2])),
         emotion_score |-> EmotionScore(positive_hits, negative_hits),
         sentiment |-> sentiment,
         tone |-> InferTone(sentiment, video_tokens),
         key_topics |-> key_topics.returned,
         key_entities |->
            IF KeyEntities(video) # <<>> THEN KeyEntities(video)
            ELSE Prefix(key_topics.local, 3),
         intent_type |-> InferIntentType(video_tokens),
         interest_topics |-> InferInterestTopics(video),
         emotion_type |-> InferEmotionType(sentiment, video_tokens)])))))))

\* _heuristic_brand_safety
HeuristicBrandSafety(video, sentiment) ==
    IF TextContains(VideoTokens(video), RISKY_TERMS) THEN "unsafe"
    ELSE IF TextContains(VideoTokens(video), REVIEW_TERMS) \/ sentiment = "negative"
        THEN "review"
    ELSE "safe"

(***************************************************************************)
(* Normalization of the language model's answer (_payload_from_llm) and    *)
(* the heuristic payload (_fallback_payload).                              *)
(***************************************************************************)
LlmKeys ==
    {"semantic_similarity_score", "intent_score", "interest_score",
     "emotion_score", "intent_type", "interest_topics", "emotion_type",
     "contextual_score", "brand_safety_status", "brand_suitability",
     "sentiment", "tone", "key_entities", "key_topics",
     "targeting_recommendation", "suggested_bid_modifier", "reasoning"}

\* What json.loads returned: a dict (f holds its known keys, n counts the
\* others) or another JSON value (n is its length or number).
RawDict(f, extra) == [t |-> "dict", n |-> extra, f |-> f]
RawOther(type, size) == [t |-> type, n |-> size, f |-> [k \in LlmKeys |-> Absent]]

\* bool(llm_payload)
RawTruthy(raw) ==
    IF raw.t = "dict" THEN raw.n > 0 \/ \E k \in LlmKeys : raw.f[k] # Absent
    ELSE IF raw.t = "null" THEN FALSE
    ELSE raw.n # 0

\* _enum_value: the member whose value is the cleaned text, else the default
EnumValue(members, v, default) ==
    IF v.t = "str" /\ StripLower(v.s) \in members THEN StripLower(v.s) ELSE default

\* _coerce_float with clamp (0.0, 1.0)
CoerceFloat(v, default) ==
    With(FloatOf(v), LAMBDA f : IF f[1] THEN Clamp(f, 0, One) ELSE default)

\* value.split(','), every part stripped, empty parts dropped
SplitComma(s) ==
    CASE s = "tech, phones,, reviews ,gadgets" -> <<"tech", "phones", "reviews", "gadgets">>
      [] s = " , " -> <<>>
      [] OTHER -> <<s>>

\* _coerce_topics without the [:3] of its two branches.
CoerceTopicsUncut(v, fallback) ==
    IF v.t = "list"
        THEN With(FilterSeq(v.l, LAMBDA x : x # ""), LAMBDA cleaned :
                IF cleaned # <<>> THEN cleaned ELSE fallback)
    ELSE IF v.t = "str" /\ StripLower(v.s) # ""
        THEN With(SplitComma(v.s), LAMBDA parts :
                IF parts # <<>> THEN parts ELSE fallback)
    ELSE fallback

\* _coerce_topics
CoerceTopics(v, fallback) ==
    IF v.t = "list"
        THEN With(FilterSeq(v.l, LAMBDA x : x # ""), LAMBDA cleaned :
                IF cleaned # <<>> THEN Prefix(cleaned, 3) ELSE fallback)
    ELSE IF v.t = "str" /\ StripLower(v.s) # ""
        THEN With(SplitComma(v.s), LAMBDA parts :
                IF parts # <<>> THEN Prefix(parts, 3) ELSE fallback)
    ELSE fallback

EmotionSynonyms ==
    [w \in {"happy", "cheerful", "exciting", "energetic", "motivated",
            "emotional", "relaxed", "informative", "negative", "sales"} |->
        CASE w \in {"happy", "cheerful"} -> "joyful"
          [] w \in {"exciting", "energetic"} -> "excited"
          [] w = "motivated" -> "inspired"
          [] w = "emotional" -> "nostalgic"
          [] w = "relaxed" -> "calm"
          [] w = "informative" -> "serious"
          [] w = "negative" -> "critical"
          [] w = "sales" -> "persuasive"]

\* every value that is no entry and no synonym becomes "neutral"
NormalizeEmotionToNeutral(v, fallback) ==
    IF v.t = "str" /\ StripLower(v.s) \in EMOTION_OPTIONS THEN StripLower(v.s)
    ELSE IF v.t = "str" /\ StripLower(v.s) \in DOMAIN EmotionSynonyms
        THEN EmotionSynonyms[StripLower(v.s)]
    ELSE "neutral"

\* _normalize_emotion
NormalizeEmotion(v, fallback) ==
    IF v.t = "str" /\ StripLower(v.s) \in EMOTION_OPTIONS THEN StripLower(v.s)
    ELSE IF v.t = "str" /\ StripLower(v.s) \in DOMAIN EmotionSynonyms
        THEN EmotionSynonyms[StripLower(v.s)]
    ELSE IF fallback \in EMOTION_OPTIONS THEN fallback
    ELSE "neutral"

\* the plain mean of the four scores
WeightedScoreEven(semantic, intent, interest, emotion) ==
    (semantic + intent + interest + emotion) \div 4

\* semantic * 0.4 + intent * 0.25 + interest * 0.2 + emotion * 0.15
WeightedScore(semantic, intent, interest, emotion) ==
    (40 * semantic + 25 * intent + 20 * interest + 15 * emotion) \div 100

\* A generated sentence: its template, the number it prints and its words.
Sentence(template, number, words) ==
    [t |-> "str", n |-> number, s |-> template, l |-> words]

\* _build_reasoning_placeholder: the score is printed with two decimals
BuildReasoningPlaceholder(contextual_score, recommendation) ==
    Sentence("Contextual score justifies", RoundTo(contextual_score, 1000),
             <<recommendation>>)

\* _build_reasoning: the score is printed as a whole percentage
BuildReasoning(campaign, video, contextual_score, recommendation) ==
    Sentence("Video aligns with campaign", RoundTo(contextual_score, 1000),
             <<video.video_id, campaign.name, recommendation>>)

NoPayload ==
    [semantic_similarity_score |-> 0, intent_score |-> 0, interest_score |-> 0,
     emotion_score |-> 0, intent_type |-> Null, interest_topics |-> <<>>,
     emotion_type |-> "", contextual_score |-> 0, brand_safety_status |-> "",
     brand_suitability |-> "", sentiment |-> "", tone |-> Null,
     key_entities |-> Null, key_topics |-> Null,
     targeting_recommendation |-> "", suggested_bid_modifier |-> 0,
     reasoning |-> Null]

Raised(error) == [raised |-> error, payload |-> NoPayload]
Returned(payload) == [raised |-> "none", payload |-> payload]

\* llm_payload.get("suggested_bid_modifier", 1.0)
GetBid(raw) ==
    IF raw.f["suggested_bid_modifier"] = Absent THEN Num(One)
    ELSE raw.f["suggested_bid_modifier"]

\* _payload_from_llm past its conversions: the returned dict.  bid_modifier
\* comes clamped to [0, 2] (the only way to carry a nan), which the clamp of
\* line 505 leaves as it is.
NormalizedPayload(raw, heuristic, bid_modifier) ==
    With(CoerceFloat(raw.f["semantic_similarity_score"],
                     heuristic.semantic_similarity_score), LAMBDA semantic :
    With(CoerceFloat(raw.f["intent_score"], heuristic.intent_score), LAMBDA intent :
    With(CoerceFloat(raw.f["interest_score"], heuristic.interest_score), LAMBDA interest :
    With(CoerceFloat(raw.f["emotion_score"], heuristic.emotion_score), LAMBDA emotion :
    With(CoerceFloat(raw.f["contextual_score"],
                     WeightedScore(semantic, intent, interest, emotion)), LAMBDA contextual :
    With(EnumValue(BrandSafetyStatus, raw.f["brand_safety_status"], "safe"),
         LAMBDA brand_safety :
    With(EnumValue(Sentiment, raw.f["sentiment"], heuristic.sentiment), LAMBDA sentiment :
    With(EnumValue(BrandSuitability, raw.f["brand_suitability"],
                   DetermineBrandSuitability(contextual, brand_safety, sentiment)),
         LAMBDA brand_suitability :
    With(EnumValue(TargetingRecommendation, raw.f["targeting_recommendation"], "none"),
         LAMBDA given :
    With(IF given = "none"
            THEN DetermineRecommendation(contextual, brand_suitability, brand_safety)
         ELSE <<given, bid_modifier>>, LAMBDA decided :
        [semantic_similarity_score |-> semantic,
         intent_score |-> intent,
         interest_score |-> interest,
         emotion_score |-> emotion,
         intent_type |-> OrElse(raw.f["intent_type"], Str(heuristic.intent_type)),
         interest_topics |->
            CoerceTopics(raw.f["interest_topics"], heuristic.interest_topics),
         emotion_type |-> NormalizeEmotion(raw.f["emotion_type"], heuristic.emotion_type),
         contextual_score |-> contextual,
         brand_safety_status |-> brand_safety,
         brand_suitability |-> brand_suitability,
         sentiment |-> sentiment,
         tone |-> OrElse(raw.f["tone"], Str(heuristic.tone)),
         key_entities |-> OrElse(raw.f["key_entities"], List(heuristic.key_entities)),
         key_topics |-> OrElse(raw.f["key_topics"], List(heuristic.key_topics)),
         targeting_recommendation |-> decided[1],
         suggested_bid_modifier |-> RoundTo(Max2(0, Min2(2 * One, decided[2])), 1000),
         reasoning |->
            OrElse(raw.f["reasoning"],
                   BuildReasoningPlaceholder(contextual, decided[1]))]))))))))))

\* _payload_from_llm: .get on a value that is no dict is an AttributeError;
\* float() of the bid modifier (line 480) is under no try.
PayloadFromLlm(raw, heuristic) ==
    IF raw.t # "dict" THEN Raised("AttributeError")
    ELSE With(FloatOf(GetBid(raw)), LAMBDA f :
            IF ~f[1] THEN Raised(FloatError(GetBid(raw)))
            ELSE Returned(NormalizedPayload(raw, heuristic, Clamp(f, 0, 2 * One))))

\* _fallback_payload
FallbackPayload(campaign, video, heuristic) ==
    With(HeuristicBrandSafety(video, heuristic.sentiment), LAMBDA brand :
    With(WeightedScore(heuristic.semantic_similarity_score, heuristic.intent_score,
                       heuristic.interest_score, heuristic.emotion_score),
         LAMBDA contextual :
    With(DetermineBrandSuitability(contextual, brand, heuristic.sentiment),
         LAMBDA suitability :
    With(DetermineRecommendation(contextual, suitability, brand), LAMBDA decided :
        [semantic_similarity_score |-> heuristic.semantic_similarity_score,
         intent_score |-> heuristic.intent_score,
         interest_score |-> heuristic.interest_score,
         emotion_score |-> heuristic.emotion_score,
         intent_type |-> Str(heuristic.intent_type),
         interest_topics |-> heuristic.interest_topics,
         emotion_type |-> NormalizeEmotion(Str(heuristic.emotion_type), "neutral"),
         contextual_score |-> RoundTo(contextual, 100),
         brand_safety_status |-> brand,
         brand_suitability |-> suitability,
         sentiment |-> heuristic.sentiment,
         tone |-> Str(heuristic.tone),
         key_entities |-> List(heuristic.key_entities),
         key_topics |-> List(heuristic.key_topics),
         targeting_recommendation |-> decided[1],
         suggested_bid_modifier |-> decided[2],
         reasoning |-> BuildReasoning(campaign, video, contextual, decided[1])]))))

(***************************************************************************)
(* The fetch cycle: search_videos and fetch_videos_for_campaign.  A video  *)
(* id of the provider is a number; a timestamp is a number, 0 for a        *)
(* last_fetched_at that is unset (the selector reads it as datetime.min).  *)
(***************************************************************************)
KEYWORD_TYPE_WEIGHTS ==
    [t \in KeywordType |->
        CASE t = "core" -> 50
          [] t = "related" -> 25
          [] t = "intent-based" -> 15
          [] t = "long-tail" -> 10]

\* max_keyword_budget=min(len(keywords), 20)
RotationWidth == 20

\* 'maxResults': min(max_results_per_keyword, 50)
ProviderPageCap == 50

\* dict[key] = value and dict.get(key, [])
Put(dict, key, value) ==
    [k \in DOMAIN dict \cup {key} |-> IF k = key THEN value ELSE dict[k]]

Get(dict, key) == IF key \in DOMAIN dict THEN dict[key] ELSE <<>>

EmptyDict == [k \in {} |-> <<>>]

\* One answer of the provider to search().list(...).execute(): the ids of the
\* items, an HttpError with status 403, or any other exception.
Items(ids) == [kind |-> "items", ids |-> ids]
Forbidden == [kind |-> "http403", ids |-> <<>>]
OtherError == [kind |-> "error", ids |-> <<>>]

\* The except branches of search_videos: an HttpError with status 403 raises,
\* any other failure records an empty list and continues.
SearchFailureSkipsAlways(answer) == "skip"

SearchFailure(answer) == IF answer.kind = "http403" THEN "raise" ELSE "skip"

\* The loop of search_videos over the keywords; answers[i] is what the
\* provider does on the i-th search.
RECURSIVE SearchLoop(_, _, _, _, _)
SearchLoop(keywords, answers, i, all_video_ids, keyword_results) ==
    IF i > Len(keywords)
    THEN [raised |-> FALSE, video_ids |-> all_video_ids,
          keyword_results |-> keyword_results, searched |-> Len(keywords)]
    ELSE CASE answers[i].kind = "items" ->
                SearchLoop(keywords, answers, i + 1,
                           all_video_ids \cup Range(answers[i].ids),
                           Put(keyword_results, keywords[i], answers[i].ids))
           [] SearchFailure(answers[i]) = "raise" ->
                [raised |-> TRUE, video_ids |-> {},
                 keyword_results |-> keyword_results, searched |-> i]
           [] OTHER ->
                SearchLoop(keywords, answers, i + 1, all_video_ids,
                           Put(keyword_results, keywords[i], <<>>))

SearchVideos(keywords, answers) ==
    SearchLoop(keywords, answers, 1, {}, EmptyDict)

\* The keyword updates, counting the hits with their repetitions.
UpdatedKeywordAllHits(kw, keyword_hits, now) ==
    [kw EXCEPT !.last_fetched_at = now,
               !.fetch_count = @ + 1,
               !.total_results = @ + Len(Get(keyword_hits, kw.keyword))]

\* The keyword updates prior to commit.
UpdatedKeyword(kw, keyword_hits, now) ==
    [kw EXCEPT !.last_fetched_at = now,
               !.fetch_count = @ + 1,
               !.total_results = @ + Cardinality(Range(Get(keyword_hits, kw.keyword)))]

\* db.query(Keyword).filter(campaign, ACTIVE).order_by(relevance_score.desc())
ActiveKeywords(rows) ==
    With(SelectSeq(rows, LAMBDA k : k.status = "active"), LAMBDA s :
        [p \in 1..Len(s) |->
            s[CHOOSE i \in 1..Len(s) :
                Cardinality({j \in 1..Len(s) :
                    \/ s[j].relevance_score > s[i].relevance_score
                    \/ s[j].relevance_score = s[i].relevance_score /\ j < i}) = p - 1]])

\* max_per_keyword = max(1, max_results // len(keyword_texts))
MaxPerKeyword(max_results, n) == Max2(1, max_results \div n)

\* A commit whose failure leaves the flushed keyword rows behind.
CommitSessionNoRollback(db, pending, commit_ok) ==
    [keywords |-> [i \in 1..Len(db.keywords) |->
                        IF db.keywords[i].id \in DOMAIN pending.keywords
                        THEN pending.keywords[db.keywords[i].id]
                        ELSE db.keywords[i]],
     videos |-> IF commit_ok THEN db.videos \cup pending.videos ELSE db.videos]

\* db.commit() of the session: the pending inserts and the dirty keyword rows
\* are written in one transaction, or the except branch rolls all of it back.
CommitSession(db, pending, commit_ok) ==
    IF commit_ok
    THEN [keywords |-> [i \in 1..Len(db.keywords) |->
                            IF db.keywords[i].id \in DOMAIN pending.keywords
                            THEN pending.keywords[db.keywords[i].id]
                            ELSE db.keywords[i]],
          videos |-> db.videos \cup pending.videos]
    ELSE db

\* What the provider returns on the i-th search of a cycle, for the query q
\* and the page size max_results: the fault of the cycle at its position, else
\* the first max_results hits of the catalogue.
ProviderSearch(hits, fault, i, q, max_results) ==
    IF fault.at = i /\ fault.kind \in {"http403", "error"}
    THEN [kind |-> fault.kind, ids |-> <<>>]
    ELSE Items(Prefix(hits[q], max_results))

\* get_video_details on one batch of ids: the data of every id, or of none
\* when the batch fails; a 403 raises.
VideoDetails(video_ids, fault) ==
    CASE fault.kind = "details403" -> [raised |-> TRUE, videos_data |-> {}]
      [] fault.kind = "details_error" -> [raised |-> FALSE, videos_data |-> {}]
      [] OTHER -> [raised |-> FALSE, videos_data |-> video_ids]

NoPending == [keywords |-> EmptyDict, videos |-> {}]

NoSearch ==
    [raised |-> FALSE, video_ids |-> {}, keyword_results |-> EmptyDict, searched |-> 0]

CycleResult(status, db, selected, max_results, max_per_keyword, answers, search, new_videos, pending) ==
    [status |-> status, db |-> db,
     selected |-> [i \in 1..Len(selected) |-> selected[i].id],
     max_results |-> max_results, max_per_keyword |-> max_per_keyword,
     answers |-> answers, search |-> search,
     new_videos |-> new_videos, pending |-> pending]

\* The head of fetch_videos_for_campaign: the active keywords of the campaign
\* and the call of the selector.
RotationSelection(db) ==
    With(ActiveKeywords(db.keywords), LAMBDA keywords :
        SelectKeywordsForRotation(keywords, Min2(Len(keywords), RotationWidth),
                                  KEYWORD_TYPE_WEIGHTS))

\* A cycle that writes the keyword updates also when no video was found
FetchVideosUpdatingWithoutVideos(db, selection, max_results, hits, fault, now) ==
    IF selection.raised
    THEN CycleResult("value_error", db, <<>>, max_results, 0, <<>>, NoSearch, {},
                     NoPending)
    ELSE
    With(selection.selected, LAMBDA selected_keywords :
    With([i \in 1..Len(selected_keywords) |-> selected_keywords[i].keyword],
         LAMBDA keyword_texts :
    With(MaxPerKeyword(max_results, Len(keyword_texts)), LAMBDA max_per_keyword :
    With([i \in 1..Len(keyword_texts) |->
            ProviderSearch(hits, fault, i, keyword_texts[i],
                           Min2(max_per_keyword, ProviderPageCap))], LAMBDA answers :
    With(SearchVideos(keyword_texts, answers), LAMBDA search :
    IF search.raised
    THEN CycleResult("search_raised", db, selected_keywords, max_results,
                     max_per_keyword, answers, search, {}, NoPending)
    ELSE IF search.video_ids = {}
    THEN CycleResult("no_videos",
                     CommitSession(db,
                        [videos |-> {},
                         keywords |-> [id \in {selected_keywords[i].id : i \in 1..Len(selected_keywords)} |->
                            UpdatedKeyword(
                                selected_keywords[CHOOSE i \in 1..Len(selected_keywords) :
                                                    selected_keywords[i].id = id],
                                search.keyword_results, now)]], TRUE),
                     selected_keywords, max_results,
                     max_per_keyword, answers, search, {}, NoPending)
    ELSE
    With(VideoDetails(search.video_ids, fault), LAMBDA details :
    IF details.raised
    THEN CycleResult("details_raised", db, selected_keywords, max_results,
                     max_per_keyword, answers, search, {}, NoPending)
    ELSE
    With(details.videos_data \ db.videos, LAMBDA new_videos :
    With([videos |-> new_videos,
          keywords |-> [id \in {selected_keywords[i].id : i \in 1..Len(selected_keywords)} |->
                UpdatedKeyword(
                    selected_keywords[CHOOSE i \in 1..Len(selected_keywords) :
                                        selected_keywords[i].id = id],
                    search.keyword_results, now)]], LAMBDA pending :
    With(CommitSession(db, pending, fault.kind # "commit"), LAMBDA after :
        CycleResult(IF fault.kind # "commit" THEN "committed" ELSE "db_error",
                    after, selected_keywords, max_results, max_per_keyword,
                    answers, search, new_videos, pending))))))))))

\* fetch_videos_for_campaign on the tables db from the selection on, with the
\* provider and the database behaving as hits and fault say, at the time now.
FetchVideosForCampaign(db, selection, max_results, hits, fault, now) ==
    IF selection.raised
    THEN CycleResult("value_error", db, <<>>, max_results, 0, <<>>, NoSearch, {},
                     NoPending)
    ELSE
    With(selection.selected, LAMBDA selected_keywords :
    With([i \in 1..Len(selected_keywords) |-> selected_keywords[i].keyword],
         LAMBDA keyword_texts :
    With(MaxPerKeyword(max_results, Len(keyword_texts)), LAMBDA max_per_keyword :
    With([i \in 1..Len(keyword_texts) |->
            ProviderSearch(hits, fault, i, keyword_texts[i],
                           Min2(max_per_keyword, ProviderPageCap))], LAMBDA answers :
    With(SearchVideos(keyword_texts, answers), LAMBDA search :
    IF search.raised
    THEN CycleResult("search_raised", db, selected_keywords, max_results,
                     max_per_keyword, answers, search, {}, NoPending)
    ELSE IF search.video_ids = {}
    THEN CycleResult("no_videos", db, selected_keywords, max_results,
                     max_per_keyword, answers, search, {}, NoPending)
    ELSE
    With(VideoDetails(search.video_ids, fault), LAMBDA details :
    IF details.raised
    THEN CycleResult("details_raised", db, selected_keywords, max_results,
                     max_per_keyword, answers, search, {}, NoPending)
    ELSE
    With(details.videos_data \ db.videos, LAMBDA new_videos :
    With([videos |-> new_videos,
          keywords |-> [id \in {selected_keywords[i].id : i \in 1..Len(selected_keywords)} |->
                UpdatedKeyword(
                    selected_keywords[CHOOSE i \in 1..Len(selected_keywords) :
                                        selected_keywords[i].id = id],
                    search.keyword_results, now)]], LAMBDA pending :
    With(CommitSession(db, pending, fault.kind # "commit"), LAMBDA after :
        CycleResult(IF fault.kind # "commit" THEN "committed" ELSE "db_error",
                    after, selected_keywords, max_results, max_per_keyword,
                    answers, search, new_videos, pending))))))))))

(***************************************************************************)
(* Bounds of the checked instances.                                        *)
(***************************************************************************)
MaxKeywords == 5
MaxWeight == 2
ScoreSteps == 20
MaxCalls == 3
MaxBatch == 3
MaxDbFailures == 1
MaxCycles == 2
MaxFaultAt == 2
MaxTokens == 3
MaxHits == 10
LongText == 2001

(***************************************************************************)
(* The recommendation table applied to every input of a grid around its    *)
(* thresholds.                                                             *)
(***************************************************************************)
ScoreGrid ==
    {k * (One \div ScoreSteps) : k \in 0..ScoreSteps}
        \cup {39999, 40000, 59999, 60000, 79999, 80000}

NoRecommendation == <<"none", 0>>

ParkedRec ==
    /\ rcIn = [contextual_score |-> 0, brand_suitability |-> "low",
               brand_safety_status |-> "safe"]
    /\ rcOut = NoRecommendation

InitRec ==
    /\ rcIn \in [contextual_score : ScoreGrid, brand_suitability : BrandSuitability,
                 brand_safety_status : BrandSafetyStatus]
    /\ rcOut = NoRecommendation

Recommend ==
    /\ rcOut = NoRecommendation
    /\ rcOut' = DetermineRecommendation(rcIn.contextual_score, rcIn.brand_suitability,
                                        rcIn.brand_safety_status)
    /\ UNCHANGED rcIn

(***************************************************************************)
(* The selector applied to keyword lists of every distribution over the    *)
(* categories, every budget and every weight map of the bounds; then again *)
(* with one category's weight raised.                                      *)
(***************************************************************************)
SizeVectors ==
    {sz \in [KeywordType -> 0..MaxKeywords] :
        sz["core"] + sz["related"] + sz["intent-based"] + sz["long-tail"] <= MaxKeywords}

\* Lists in which one category holds WideBucket keywords and every other
\* category at most one.
WideBucket == MaxKeywords + 1
LopsidedSizeVectors ==
    {sz \in [KeywordType -> {0, 1, WideBucket}] :
        /\ Cardinality({t \in KeywordType : sz[t] = WideBucket}) = 1
        /\ Cardinality({t \in KeywordType : sz[t] = 1}) >= 1}

RECURSIVE ConcatAll(_)
ConcatAll(ss) == IF ss = <<>> THEN <<>> ELSE Head(ss) \o ConcatAll(Tail(ss))

\* The types of the keywords of a list with sz[t] keywords of type t, round robin.
KeywordTypesOf(sz) ==
    LET order == <<"long-tail", "core", "intent-based", "related">>
    IN ConcatAll([r \in 1..WideBucket |->
            SelectSeq(order, LAMBDA t : sz[t] >= r)])

MakeKeywords(sz) ==
    LET ts == KeywordTypesOf(sz)
    IN [i \in 1..Len(ts) |->
            [id |-> i, keyword_type |-> ts[i],
             total_results |-> IF i % 3 = 0 THEN 0 ELSE i % 2,
             last_fetched_at |-> i % 3,
             relevance_score |-> 95 - 5 * i]]

NoSelection == [raised |-> TRUE, selected |-> <<>>, mix |-> [t \in KeywordType |-> 0]]
NoRaise == [keyword_type |-> "core", by |-> 0, out |-> NoSelection]

ParkedSel ==
    /\ selIn = [keywords |-> <<>>, budget |-> 0, weights |-> [t \in KeywordType |-> 0]]
    /\ selOut = NoSelection
    /\ selRaised = NoRaise
    /\ selPhase = "input"

InitSel ==
    /\ \E sz \in SizeVectors \cup LopsidedSizeVectors, w \in [KeywordType -> 0..MaxWeight] :
         \E b \in 0..(Len(MakeKeywords(sz)) + 1) :
            \* weights.get(t, 0.0): a type the map omits weighs 0; the weight of
            \* a type without keywords is never read.
            /\ \A t \in KeywordType : sz[t] = 0 => w[t] = 0
            /\ b \in 1..Len(MakeKeywords(sz)) \/ w = [t \in KeywordType |-> 0]
            /\ selIn = [keywords |-> MakeKeywords(sz), budget |-> b, weights |-> w]
    /\ selOut = NoSelection
    /\ selRaised = NoRaise
    /\ selPhase = "input"

Select ==
    /\ selPhase = "input"
    /\ selOut' = SelectKeywordsForRotation(selIn.keywords, selIn.budget, selIn.weights)
    /\ selPhase' = "selected"
    /\ UNCHANGED <<selIn, selRaised>>

SelectRaised(t, d) ==
    /\ selPhase = "selected"
    /\ ~selOut.raised
    /\ BucketSizes(selIn.keywords)[t] > 0
    /\ selRaised' = [keyword_type |-> t, by |-> d,
                     out |-> SelectKeywordsForRotation(selIn.keywords, selIn.budget,
                                [selIn.weights EXCEPT ![t] = @ + d])]
    /\ selPhase' = "raised"
    /\ UNCHANGED <<selIn, selOut>>

(***************************************************************************)
(* The campaigns and videos of the checked instances.                      *)
(***************************************************************************)
Campaigns ==
    {[id |-> "c1", name |-> "Sample Tech Campaign",
      text |-> <<"sample", "tech", "campaign", "techco", "smartphone",
                 "awareness", "affordable", "phone", "review">>],
     [id |-> "c2", name |-> "Summer Travel",
      text |-> <<"summer", "travel", "how", "bad">>]}

Videos ==
    {[id |-> "v1", campaign_id |-> "c1", video_id |-> "yt1",
      title |-> <<"best", "budget", "smartphone", "review">>,
      description |-> <<"amazing", "top", "phone">>,
      tags |-> <<"smartphone", "review">>],
     [id |-> "v2", campaign_id |-> "c1", video_id |-> "yt2",
      title |-> <<"whatever", "drama">>,
      description |-> <<>>,
      tags |-> <<>>],
     [id |-> "v3", campaign_id |-> "c2", video_id |-> "yt3",
      title |-> <<"how", "to", "fail">>,
      description |-> <<"worst", "bad", "problem">>,
      tags |-> <<"travel">>],
     [id |-> "v4", campaign_id |-> "c1", video_id |-> "yt4",
      title |-> <<"tech", "phone", "campaign">>,
      description |-> <<"smartphone", "review">>,
      tags |-> <<>>]}

CampaignOf(video) == CHOOSE c \in Campaigns : c.id = video.campaign_id

\* The heuristic signals a run of _heuristic_nlp can return for the video.
Heuristics(campaign, video) ==
    {HeuristicNlp(campaign, video, k) : k \in KeyTopicsChoices(campaign, video)}

(***************************************************************************)
(* Answers of the language model: every combination of a value for the     *)
(* four dimension scores, one for the contextual score, one for the bid    *)
(* modifier, a profile of the four enumerated fields and a profile of the  *)
(* text and list fields.                                                   *)
(***************************************************************************)
ScoreValues ==
    {Absent, Null, Num(45000), Num(85000), Num(150000), Str("0.5"), NaN}
ContextualValues ==
    {Absent, Num(30000), Num(65000), Num(90000), Num(0 - 20000), Str("high")}
BidValues ==
    {Absent, Null, Num(120000), Num(250000), Num(0 - One), Str("1.7"),
     Str("high"), NaN, List(<<"1.2">>)}

\* <<brand_safety_status, brand_suitability, sentiment, targeting_recommendation>>
EnumProfiles ==
    {<<Absent, Absent, Absent, Absent>>,
     <<Str("safe"), Str("high"), Str("positive"), Str("strong_match")>>,
     <<Str(" Unsafe "), Str("HIGH"), Str("Positive"), Str("strong_match")>>,
     <<Str("review"), Str("maybe"), Str("negative"), Null>>,
     <<Num(One), Absent, Str("neutral"), Str(" Avoid")>>,
     <<Str("safe"), Str("medium"), Str("neutral"), Str("boost")>>,
     <<Str("unsafe"), Str("high"), Str("positive"), Absent>>}

\* <<intent_type, interest_topics, emotion_type, tone, key_entities,
\*   key_topics, reasoning>>
TextProfiles ==
    {<<Absent, Absent, Absent, Absent, Absent, Absent, Absent>>,
     <<Str("commercial"), List(<<"phones", "", "reviews", "tech", "gadgets">>),
       Str("Happy "), Str("warm and conversational"), List(<<"TechCo">>),
       List(<<"phones", "reviews", "budget", "android">>), Str("Good fit.")>>,
     <<Str(""), Str("tech, phones,, reviews ,gadgets"), Str("melancholic"),
       List(<<"warm">>), Str("TechCo"), List(<<>>), Obj(1)>>,
     <<Null, Str(" , "), Num(One), Str(""), Null, Null, Str("")>>,
     <<Str("informational"), List(<<"phones">>), Str(" Calm"),
       Str("calm and reflective"), List(<<"TechCo">>), List(<<"phones">>),
       Str("Measured.")>>}

RawFields(dimension, contextual, bid, enums, texts) ==
    [k \in LlmKeys |->
        CASE k \in {"semantic_similarity_score", "intent_score",
                    "interest_score", "emotion_score"} -> dimension
          [] k = "contextual_score" -> contextual
          [] k = "suggested_bid_modifier" -> bid
          [] k = "brand_safety_status" -> enums[1]
          [] k = "brand_suitability" -> enums[2]
          [] k = "sentiment" -> enums[3]
          [] k = "targeting_recommendation" -> enums[4]
          [] k = "intent_type" -> texts[1]
          [] k = "interest_topics" -> texts[2]
          [] k = "emotion_type" -> texts[3]
          [] k = "tone" -> texts[4]
          [] k = "key_entities" -> texts[5]
          [] k = "key_topics" -> texts[6]
          [] k = "reasoning" -> texts[7]]

RawAnswers ==
    {RawDict(RawFields(s, c, b, e, x), 0) :
        s \in ScoreValues, c \in ContextualValues, b \in BidValues,
        e \in EnumProfiles, x \in TextProfiles}
    \cup {RawDict([k \in LlmKeys |-> Absent], 1),
          RawOther("list", 1), RawOther("str", 2), RawOther("num", 1),
          RawOther("null", 0), RawOther("list", 0)}

NoHeuristic ==
    [semantic_similarity_score |-> 0, intent_score |-> 0, interest_score |-> 0,
     emotion_score |-> 0, sentiment |-> "", tone |-> "", key_topics |-> <<>>,
     key_entities |-> <<>>, intent_type |-> "", interest_topics |-> <<>>,
     emotion_type |-> ""]

ParkedNorm ==
    /\ nmIn = [raw |-> RawOther("null", 0), video_id |-> "", heuristic |-> NoHeuristic]
    /\ nmOut = Raised("none")
    /\ nmFallback = NoPayload
    /\ nmPhase = "input"

InitNorm ==
    /\ \E video \in Videos :
         \E h \in Heuristics(CampaignOf(video), video) :
            \E raw \in RawAnswers :
                nmIn = [raw |-> raw, video_id |-> video.video_id, heuristic |-> h]
    /\ nmOut = Raised("none")
    /\ nmFallback = NoPayload
    /\ nmPhase = "input"

VideoById(video_id) == CHOOSE v \in Videos : v.video_id = video_id

\* payload = _payload_from_llm(llm_payload, heuristic)
Normalize ==
    /\ nmPhase = "input"
    /\ nmOut' = PayloadFromLlm(nmIn.raw, nmIn.heuristic)
    /\ nmPhase' = "normalized"
    /\ UNCHANGED <<nmIn, nmFallback>>

\* payload = _fallback_payload(campaign, video, heuristic)
Fallback ==
    /\ nmPhase = "normalized"
    /\ nmFallback' = FallbackPayload(CampaignOf(VideoById(nmIn.video_id)),
                                     VideoById(nmIn.video_id), nmIn.heuristic)
    /\ nmPhase' = "fallback"
    /\ UNCHANGED <<nmIn, nmOut>>

(***************************************************************************)
(* score_video over the repository.  A process is a request handler with   *)
(* its own database session; process 1 serves the batch endpoint in        *)
(* SpecBatch, every other process serves the single-video endpoint.  The   *)
(* steps of score_video are separated where it talks to the database:      *)
(* everything up to the lookup, the commit, the conflict handler's         *)
(* rollback and re-read, and the second commit.                            *)
(***************************************************************************)
Procs == {1, 2}

\* Outcomes of the completion provider: the call raises (an API error or a
\* timeout), its content is not JSON, or json.loads returns a value.
LlmOutcomes == {"raises", "malformed", "answer"}
TranscriptOutcomes == {"text", "raises"}

FullAnswer(contextual, sentiment, tone) ==
    RawDict(RawFields(Num(85000), Num(contextual), Num(120000),
                      <<Str("safe"), Str("high"), Str(sentiment), Str("strong_match")>>,
                      <<Str("commercial"), List(<<"phones">>), Str("excited"),
                        tone, List(<<"TechCo">>), List(<<"phones">>),
                        Str("Good fit.")>>), 0)

\* The values json.loads returns in the instances: an empty object, two
\* complete answers that differ in some fields and agree in the others, an
\* answer with a text for the bid modifier, one with a list for the tone,
\* and a list.
ScoreAnswers ==
    {RawDict([k \in LlmKeys |-> Absent], 0),
     FullAnswer(90000, "positive", Str("warm and conversational")),
     FullAnswer(65000, "positive", Str("urgent and persuasive")),
     [FullAnswer(90000, "positive", Str("warm and conversational"))
        EXCEPT !.f["suggested_bid_modifier"] = Str("high")],
     FullAnswer(90000, "positive", List(<<"warm">>)),
     RawOther("list", 1)}

\* score_video lines 630-644: the provider's exceptions are caught and leave
\* llm_payload None; a falsy llm_payload selects the heuristic payload.
LlmPayload(llm, raw) == IF llm = "answer" THEN raw ELSE RawOther("null", 0)

ComputePayloadUnguarded(campaign, video, heuristic, llm, raw) ==
    IF llm # "answer" THEN Raised("APIError")
    ELSE IF RawTruthy(raw) THEN PayloadFromLlm(raw, heuristic)
    ELSE Returned(FallbackPayload(campaign, video, heuristic))

ComputePayload(campaign, video, heuristic, llm, raw) ==
    IF RawTruthy(LlmPayload(llm, raw))
        THEN PayloadFromLlm(LlmPayload(llm, raw), heuristic)
    ELSE Returned(FallbackPayload(campaign, video, heuristic))

\* A video_scores row.  video_id is the video's primary key (models.py 302).
ScoreRow(campaign_id, video, payload) ==
    [campaign_id |-> campaign_id, video_id |-> video, payload |-> payload]

\* A lookup by the video alone
ExistingByVideo(rows, campaign_id, video) == {r \in rows : r.video_id = video}

\* db.query(VideoScore).filter(video_id == video.id, campaign_id == campaign.id)
Existing(rows, campaign_id, video) ==
    {r \in rows : r.video_id = video /\ r.campaign_id = campaign_id}

\* The conflict handler's query (lines 673-677), after its rollback
RereadNothing(rows, campaign_id, video) == {}

Reread(rows, campaign_id, video) ==
    {r \in rows : r.video_id = video /\ r.campaign_id = campaign_id}

\* The unique constraint on video_scores.video_id
ViolatesUnique(rows, video) == \E r \in rows : r.video_id = video

\* The String and Text columns take no list and no object: the statement
\* fails with an error that is no IntegrityError.
BindError(payload) ==
    \E v \in {payload.intent_type, payload.tone, payload.reasoning} :
        v.t \in {"list", "obj"}

PayloadFields == DOMAIN NoPayload

\* The UPDATE of a flush sets the columns whose value differs from the one
\* the session loaded, and leaves the others as the table has them.
FlushedPayload(stored, loaded, payload) ==
    [f \in PayloadFields |-> IF payload[f] # loaded[f] THEN payload[f] ELSE stored[f]]

UpdatedRowsPartial(rows, video, loaded, payload) ==
    {IF r.video_id = video
        THEN [r EXCEPT !.payload =
                [@ EXCEPT !.contextual_score = payload.contextual_score]]
     ELSE r : r \in rows}

UpdatedRows(rows, video, loaded, payload) ==
    {IF r.video_id = video
        THEN [r EXCEPT !.payload = FlushedPayload(@, loaded, payload)]
     ELSE r : r \in rows}

NoCall ==
    [request |-> "", video |-> "", campaign |-> "", transcript |-> "", llm |-> "",
     payload |-> NoPayload, pending |-> "", loaded |-> NoPayload,
     conflicted |-> FALSE]

NoOut ==
    [status |-> "none", error |-> "", video |-> "", contextual_score |-> 0,
     conflicted |-> FALSE, db_failed |-> FALSE]

NoBatch ==
    [active |-> FALSE, done |-> FALSE, status |-> "none", campaign_id |-> "",
     video_ids |-> <<>>, next |-> 1, results |-> <<>>, errors |-> <<>>,
     log |-> <<>>]

VideoByKey(id) == CHOOSE v \in Videos : v.id = id

IsBatch(p) == p = 1 /\ batch.active

\* The ids a request can name: campaign c9 and video yt9 do not exist.
RequestCampaigns == {"c1", "c9"}
RequestVideos == {"yt1", "yt2", "yt3", "yt9"}
BatchVideos == {"yt1", "yt2", "yt3"}

\* _get_video: the video with that YouTube id in that campaign
FoundVideos(campaign_id, video_id) ==
    {v \in Videos : v.video_id = video_id /\ v.campaign_id = campaign_id}

\* The handler is through with one video: it returned the refreshed record
\* (status "ok"), answered 404 ("not_found") or an exception left
\* score_video ("raised").  The single endpoint lets the exception go; the
\* batch loop (lines 167-192) appends to results or to errors and goes on.
Finished(p, call, status, error, payload, db_failed) ==
    /\ pc' = [pc EXCEPT ![p] = "idle"]
    /\ cur' = [cur EXCEPT ![p] = NoCall]
    /\ IF IsBatch(p)
         THEN /\ batch' =
                   [batch EXCEPT
                      !.next = @ + 1,
                      !.results =
                         IF status = "ok"
                            THEN Append(@, [video_id |-> call.request,
                                            contextual_score |-> payload.contextual_score,
                                            brand_suitability |-> payload.brand_suitability])
                         ELSE @,
                      !.errors =
                         IF status # "ok"
                            THEN Append(@, [video_id |-> call.request, error |-> error])
                         ELSE @,
                      !.log = Append(@, [status |-> status, llm |-> call.llm,
                                         db_failed |-> db_failed])]
              /\ out' = out
         ELSE /\ out' = [out EXCEPT ![p] =
                            [status |-> status, error |-> error, video |-> call.video,
                             contextual_score |-> payload.contextual_score,
                             conflicted |-> call.conflicted, db_failed |-> db_failed]]
              /\ batch' = batch

\* score_video lines 581-664: heuristic, transcript, completion, payload,
\* lookup, and the pending insert or update.
BeginScore(p, request, campaign, video, transcript, llm, raw, heuristic) ==
    \E computed \in {ComputePayload(campaign, video, heuristic, llm, raw)} :
    \E existing \in {Existing(scores, campaign.id, video.id)} :
    \E call \in {[NoCall EXCEPT !.request = request, !.video = video.id,
                                !.campaign = campaign.id, !.llm = llm,
                                !.transcript = IF transcript = "text" THEN "text" ELSE ""]} :
        /\ overlapped' = (overlapped \/ \E q \in Procs \ {p} : pc[q] # "idle")
        /\ IF computed.raised # "none"
             THEN Finished(p, call, "raised", computed.raised, NoPayload, FALSE)
           ELSE /\ pc' = [pc EXCEPT ![p] = "commit"]
                /\ cur' = [cur EXCEPT ![p] =
                             [call EXCEPT
                                !.payload = computed.payload,
                                !.pending = IF existing = {} THEN "insert" ELSE "update",
                                !.loaded = IF existing = {} THEN NoPayload
                                           ELSE (CHOOSE r \in existing : TRUE).payload]]
                /\ out' = [out EXCEPT ![p] = NoOut]
                /\ batch' = batch

\* What the environment decides for one score_video call.
BeginAny(p, request, campaign, video) ==
    \E transcript \in TranscriptOutcomes, llm \in LlmOutcomes :
        \E raw \in (IF llm = "answer" THEN ScoreAnswers ELSE {RawOther("null", 0)}) :
            \E heuristic \in Heuristics(campaign, video) :
                BeginScore(p, request, campaign, video, transcript, llm, raw, heuristic)

\* POST /scoring/contextual-score (routers/scoring.py 136-157), up to the
\* first commit.  get_db gives the request a new session.
ScoreEndpoint(p) ==
    /\ ~(p = 1 /\ batch.status # "none")
    /\ pc[p] = "idle"
    /\ calls < MaxCalls
    /\ calls' = calls + 1
    /\ session' = [session EXCEPT ![p] = "active"]
    /\ UNCHANGED <<scores, lastOk, dbFailures>>
    /\ \E campaign_id \in RequestCampaigns, video_id \in RequestVideos :
         IF \A c \in Campaigns : c.id # campaign_id
            THEN /\ Finished(p, [NoCall EXCEPT !.request = video_id], "not_found",
                             "CAMPAIGN_NOT_FOUND", NoPayload, FALSE)
                 /\ UNCHANGED overlapped
         ELSE IF FoundVideos(campaign_id, video_id) = {}
            THEN /\ Finished(p, [NoCall EXCEPT !.request = video_id], "not_found",
                             "VIDEO_NOT_FOUND", NoPayload, FALSE)
                 /\ UNCHANGED overlapped
         ELSE BeginAny(p, video_id,
                       CHOOSE c \in Campaigns : c.id = campaign_id,
                       CHOOSE v \in FoundVideos(campaign_id, video_id) : TRUE)

\* db.commit() fails with an error that is no IntegrityError.  Nothing is
\* written; the exception leaves score_video with no rollback, so the
\* session stays unusable until someone rolls it back.
WriteFailed(p, error) ==
    /\ session' = [session EXCEPT ![p] = "inactive"]
    /\ Finished(p, cur[p], "raised", error, NoPayload, TRUE)
    /\ UNCHANGED <<scores, lastOk, overlapped, calls>>

\* The commit wrote the call's payload: refresh and return the record.
Written(p, rows) ==
    /\ scores' = rows
    /\ lastOk' = [lastOk EXCEPT ![cur[p].video] = cur[p].payload]
    /\ Finished(p, cur[p], "ok", "",
                (CHOOSE r \in rows : r.video_id = cur[p].video).payload, FALSE)
    /\ UNCHANGED <<session, overlapped, calls, dbFailures>>

\* score_video lines 666-668: the first db.commit()
Commit(p) ==
    /\ pc[p] = "commit"
    /\ IF BindError(cur[p].payload)
         THEN WriteFailed(p, "StatementError") /\ UNCHANGED dbFailures
       ELSE IF cur[p].pending = "update"
         THEN Written(p, UpdatedRows(scores, cur[p].video, cur[p].loaded, cur[p].payload))
       ELSE IF ViolatesUnique(scores, cur[p].video)
         THEN /\ pc' = [pc EXCEPT ![p] = "conflict"]
              /\ cur' = [cur EXCEPT ![p].conflicted = TRUE]
              /\ session' = [session EXCEPT ![p] = "inactive"]
              /\ UNCHANGED <<scores, out, batch, lastOk, overlapped, calls, dbFailures>>
       ELSE Written(p, scores \cup {ScoreRow(cur[p].campaign, cur[p].video,
                                             cur[p].payload)})

\* The database fails a commit for a reason of its own (connection lost,
\* database locked).
CommitFails(p) ==
    /\ pc[p] \in {"commit", "commit2"}
    /\ dbFailures < MaxDbFailures
    /\ dbFailures' = dbFailures + 1
    /\ WriteFailed(p, "OperationalError")

\* score_video lines 668-682: rollback, re-read, raise if there is no
\* record, else overwrite every field
Conflict(p) ==
    /\ pc[p] = "conflict"
    /\ session' = [session EXCEPT ![p] = "active"]
    /\ UNCHANGED <<scores, lastOk, overlapped, calls, dbFailures>>
    /\ LET existing == Reread(scores, cur[p].campaign, cur[p].video)
       IN  IF existing = {}
             THEN Finished(p, cur[p], "raised", "IntegrityError", NoPayload, FALSE)
           ELSE /\ pc' = [pc EXCEPT ![p] = "commit2"]
                /\ cur' = [cur EXCEPT
                             ![p].pending = "update",
                             ![p].loaded = (CHOOSE r \in existing : TRUE).payload]
                /\ UNCHANGED <<out, batch>>

\* score_video lines 683-686: the second db.commit(), under no try
Commit2(p) ==
    /\ pc[p] = "commit2"
    /\ Written(p, UpdatedRows(scores, cur[p].video, cur[p].loaded, cur[p].payload))

\* POST /scoring/batch (routers/scoring.py 160-166): the request and
\* _get_campaign
BatchBegin(p) ==
    /\ p = 1
    /\ batch.status = "waiting"
    /\ pc[p] = "idle"
    /\ session' = [session EXCEPT ![p] = "active"]
    /\ \E campaign_id \in RequestCampaigns, n \in 1..MaxBatch :
         \E video_ids \in [1..n -> BatchVideos] :
            batch' = IF \A c \in Campaigns : c.id # campaign_id
                        THEN [batch EXCEPT !.status = "not_found", !.done = TRUE,
                                           !.campaign_id = campaign_id,
                                           !.video_ids = video_ids]
                     ELSE [batch EXCEPT !.status = "running", !.active = TRUE,
                                        !.campaign_id = campaign_id,
                                        !.video_ids = video_ids]
    /\ UNCHANGED <<scores, pc, cur, out, lastOk, overlapped, calls, dbFailures>>

\* The loop body (lines 167-192) for the next id, up to the first commit.
\* _get_video runs on the request's one session: on a session that was left
\* unusable its query raises.
BatchStep(p) ==
    /\ IsBatch(p)
    /\ ~batch.done
    /\ pc[p] = "idle"
    /\ batch.next <= Len(batch.video_ids)
    /\ UNCHANGED <<scores, session, lastOk, calls, dbFailures>>
    /\ LET video_id == batch.video_ids[batch.next]
           skipped == [NoCall EXCEPT !.request = video_id]
       IN  IF session[p] = "inactive"
             THEN /\ Finished(p, skipped, "raised", "PendingRollbackError", NoPayload, FALSE)
                  /\ UNCHANGED overlapped
           ELSE IF FoundVideos(batch.campaign_id, video_id) = {}
             THEN /\ Finished(p, skipped, "not_found", "VIDEO_NOT_FOUND", NoPayload, FALSE)
                  /\ UNCHANGED overlapped
           ELSE BeginAny(p, video_id,
                         CHOOSE c \in Campaigns : c.id = batch.campaign_id,
                         CHOOSE v \in FoundVideos(batch.campaign_id, video_id) : TRUE)

\* Lines 194-209: the response with processed and failed counts
BatchReturn(p) ==
    /\ IsBatch(p)
    /\ ~batch.done
    /\ pc[p] = "idle"
    /\ batch.next > Len(batch.video_ids)
    /\ batch' = [batch EXCEPT !.done = TRUE, !.status = "returned"]
    /\ UNCHANGED <<scores, pc, cur, session, out, lastOk, overlapped, calls, dbFailures>>

VideoKeys == {v.id : v \in Videos}

ParkedScore ==
    /\ scores = {}
    /\ pc = [p \in Procs |-> "idle"]
    /\ cur = [p \in Procs |-> NoCall]
    /\ session = [p \in Procs |-> "active"]
    /\ out = [p \in Procs |-> NoOut]
    /\ batch = NoBatch
    /\ lastOk = [v \in VideoKeys |-> NoPayload]
    /\ overlapped = FALSE
    /\ calls = MaxCalls
    /\ dbFailures = MaxDbFailures

\* An empty table and two clients of the single-video endpoint.
InitScore ==
    /\ scores = {}
    /\ pc = [p \in Procs |-> "idle"]
    /\ cur = [p \in Procs |-> NoCall]
    /\ session = [p \in Procs |-> "active"]
    /\ out = [p \in Procs |-> NoOut]
    /\ batch = NoBatch
    /\ lastOk = [v \in VideoKeys |-> NoPayload]
    /\ overlapped = FALSE
    /\ calls = 0
    /\ dbFailures = 0

\* An empty table, a batch request for process 1, and a client of the
\* single-video endpoint that has computed a payload for video v1, found no
\* record and is about to commit its insert.
PendingInsert ==
    [NoCall EXCEPT
        !.request = "yt1", !.video = "v1", !.campaign = "c1", !.llm = "answer",
        !.transcript = "text", !.pending = "insert",
        !.payload = PayloadFromLlm(FullAnswer(65000, "positive",
                                              Str("urgent and persuasive")),
                                   NoHeuristic).payload]

InitBatch ==
    /\ scores = {}
    /\ pc = [p \in Procs |-> IF p = 1 THEN "idle" ELSE "commit"]
    /\ cur = [p \in Procs |-> IF p = 1 THEN NoCall ELSE PendingInsert]
    /\ session = [p \in Procs |-> "active"]
    /\ out = [p \in Procs |-> NoOut]
    /\ batch = [NoBatch EXCEPT !.status = "waiting"]
    /\ lastOk = [v \in VideoKeys |-> NoPayload]
    /\ overlapped = FALSE
    /\ calls = MaxCalls
    /\ dbFailures = 0

(***************************************************************************)
(* Fetch cycles, one after the other, over the keywords and videos of one  *)
(* campaign: a small pool that holds the same text twice and an inactive   *)
(* keyword, and a pool wider than the rotation width.                      *)
(***************************************************************************)
KeywordRow(id, keyword, keyword_type, relevance_score, status) ==
    [id |-> id, keyword |-> keyword, keyword_type |-> keyword_type,
     relevance_score |-> relevance_score, status |-> status,
     last_fetched_at |-> 0, fetch_count |-> 0, total_results |-> 0]

SmallPool ==
    << KeywordRow(1, "smartphone", "core", 90, "active"),
       KeywordRow(2, "budget phone", "long-tail", 80, "active"),
       KeywordRow(3, "smartphone", "related", 70, "active"),
       KeywordRow(4, "old phone", "core", 60, "inactive") >>

WideTexts ==
    << "k01", "k02", "k03", "k04", "k05", "k06", "k07", "k08", "k09", "k10", "k11",
       "k12", "k13", "k14", "k15", "k16", "k17", "k18", "k19", "k20", "k21", "k22" >>

WidePool ==
    [i \in 1..Len(WideTexts) |->
        KeywordRow(i, WideTexts[i],
                   CASE i % 4 = 1 -> "core"
                     [] i % 4 = 2 -> "related"
                     [] i % 4 = 3 -> "intent-based"
                     [] OTHER -> "long-tail",
                   99 - i, "active")]

Pools == {SmallPool, WidePool}

QueryTexts == {"smartphone", "budget phone", "old phone"} \cup Range(WideTexts)

\* What the provider finds for a query, by catalogue.
CatalogHits ==
    [q \in QueryTexts |->
        CASE q = "smartphone" -> <<1, 2, 1>>
          [] q = "budget phone" -> <<2, 3, 2>>
          [] q = "old phone" -> <<4>>
          [] OTHER -> LET i == CHOOSE j \in 1..Len(WideTexts) : WideTexts[j] = q
                      IN IF i % 3 = 0 THEN <<>> ELSE <<i, i + 1>>]

\* A provider that finds something for few of the queries only.
SparseHits ==
    [q \in QueryTexts |->
        CASE q = "budget phone" -> <<3, 5>>
          [] q \in {"smartphone", "old phone"} -> <<>>
          [] OTHER -> LET i == CHOOSE j \in 1..Len(WideTexts) : WideTexts[j] = q
                      IN IF i % 5 = 0 THEN <<30 + i>> ELSE <<>>]

NoHits == [q \in QueryTexts |-> <<>>]

HitProfiles == {CatalogHits, SparseHits, NoHits}

MaxResultsValues == {1, 50}

NoFault == [at |-> 0, kind |-> "none"]

Faults ==
    {NoFault}
        \cup [at : 1..MaxFaultAt, kind : {"http403", "error"}]
        \cup [at : {0}, kind : {"details403", "details_error", "commit"}]

NoTables == [keywords |-> <<>>, videos |-> {}]

NoFetch ==
    [before |-> NoTables,
     result |-> CycleResult("none", NoTables, <<>>, 0, 0, <<>>, NoSearch, {}, NoPending)]

ParkedFetch ==
    /\ tables = NoTables
    /\ clock = 0
    /\ fetch = NoFetch
    /\ everSelected = {}
    /\ channels = {}

InitFetch ==
    /\ tables \in [keywords : Pools, videos : {{}, {2}}]
    /\ clock = 0
    /\ fetch = NoFetch
    /\ everSelected = {}
    /\ channels = {}

\* One call of fetch_videos_for_campaign; datetime.utcnow() is later than
\* every time stored before.
FetchCycle(faults) ==
    \E selection \in {RotationSelection(tables)} :
      \E fault \in faults, max_results \in MaxResultsValues, hits \in HitProfiles :
        \E r \in {FetchVideosForCampaign(tables, selection, max_results, hits, fault,
                                         clock + 1)} :
          /\ r.status = "committed" => clock < MaxCycles
          /\ tables' = r.db
          /\ clock' = IF r.status = "committed" THEN clock + 1 ELSE clock
          /\ fetch' = [before |-> tables, result |-> r]
          /\ everSelected' = everSelected \cup Range(r.selected)
          /\ UNCHANGED channels

(***************************************************************************)
(* The similarity of _heuristic_nlp on token sets: every set of the small  *)
(* vocabulary 1..MaxTokens, and two long texts of up to LongText distinct  *)
(* tokens (the campaign texts may hold 16,000 characters, a description    *)
(* 5,000).                                                                 *)
(***************************************************************************)
TokenSets ==
    (SUBSET (1..MaxTokens)) \cup {1..LongText, (MaxTokens + 1)..LongText}

NoSim == [video_set |-> {}, campaign_set |-> {}, scored |-> FALSE, score |-> 0]

ParkedSim == sim = NoSim

InitSim ==
    \E video_set \in TokenSets, campaign_set \in TokenSets :
        sim = [video_set |-> video_set, campaign_set |-> campaign_set,
               scored |-> FALSE, score |-> 0]

HeuristicSimilarity ==
    /\ ~sim.scored
    /\ sim' = [sim EXCEPT
                 !.scored = TRUE,
                 !.score = SemanticSimilarityScore(sim.video_set, sim.campaign_set)]

(***************************************************************************)
(* The emotion score of _heuristic_nlp on every pair of counts of positive *)
(* and negative lexicon hits up to MaxHits.                                *)
(***************************************************************************)
NoEmo == [positive_hits |-> 0, negative_hits |-> 0, scored |-> FALSE, score |-> 0]

ParkedEmo == emo = NoEmo

InitEmo ==
    \E positive_hits \in 0..MaxHits, negative_hits \in 0..MaxHits :
        emo = [positive_hits |-> positive_hits, negative_hits |-> negative_hits,
               scored |-> FALSE, score |-> 0]

HeuristicEmotion ==
    /\ ~emo.scored
    /\ emo' = [emo EXCEPT !.scored = TRUE,
                          !.score = EmotionScore(emo.positive_hits, emo.negative_hits)]

(***************************************************************************)
(* The other operations on the keywords of a campaign, on the small pool:  *)
(* fetch_channels_for_campaign and update_keyword_status.                  *)
(***************************************************************************)
ChannelIds == {"UC1", "UC2"}

\* fetch_channels_for_campaign: it needs an active keyword, selects keywords
\* with the selector, which writes nothing, and stores the channels found
\* that the table does not hold, unless the search or the commit raises.
FetchChannelsForCampaign ==
    /\ Len(ActiveKeywords(tables.keywords)) > 0
    /\ \E found \in {{}, ChannelIds}, raised \in BOOLEAN :
          channels' = IF raised THEN channels ELSE channels \cup found
    /\ UNCHANGED <<tables, clock, fetch, everSelected>>

\* update_keyword_status on a keyword that exists: one that is selected
\* while active, and the one that starts inactive.
StatusTargets == {2, 4}

UpdateKeywordStatus ==
    \E i \in StatusTargets, status \in {"active", "inactive"} :
        /\ i <= Len(tables.keywords)
        /\ tables' = [tables EXCEPT !.keywords[i].status = status]
        /\ UNCHANGED <<clock, fetch, everSelected, channels>>

\* The provider and the database in these cycles: no failure, a failed
\* search of the first keyword, a failed commit.
KeywordOpsFaults ==
    {NoFault, [at |-> 1, kind |-> "error"], [at |-> 0, kind |-> "commit"]}

InitKeywordOps ==
    /\ tables \in [keywords : {SmallPool}, videos : {{}}]
    /\ clock = 0
    /\ fetch = NoFetch
    /\ everSelected = {}
    /\ channels = {}

(***************************************************************************)
(* score_video called by any caller: every campaign with every video, the  *)
(* video of another campaign included.  The routers call it with a video   *)
(* they looked up under the campaign.                                      *)
(***************************************************************************)
DirectVideos == {"v1", "v3"}

\* An answer that rates the video unsafe and recommends it.
UnsafeAnswer ==
    [FullAnswer(90000, "positive", Str("warm and conversational"))
        EXCEPT !.f["brand_safety_status"] = Str("unsafe")]

DirectAnswers ==
    {FullAnswer(90000, "positive", Str("warm and conversational")),
     FullAnswer(65000, "positive", Str("urgent and persuasive")),
     UnsafeAnswer}

ScoreVideo(p) ==
    /\ pc[p] = "idle"
    /\ calls < MaxCalls
    /\ calls' = calls + 1
    /\ session' = [session EXCEPT ![p] = "active"]
    /\ UNCHANGED <<scores, lastOk, dbFailures>>
    /\ \E campaign \in Campaigns, id \in DirectVideos, llm \in {"answer", "raises"} :
        \E raw \in (IF llm = "answer" THEN DirectAnswers ELSE {RawOther("null", 0)}) :
          \E heuristic \in Heuristics(campaign, VideoByKey(id)) :
            BeginScore(p, VideoByKey(id).video_id, campaign, VideoByKey(id),
                       "text", llm, raw, heuristic)

(***************************************************************************)
(* Specifications.                                                         *)
(***************************************************************************)
NextRec == Recommend /\ UNCHANGED <<varsSel, varsNorm, varsScore, varsFetch, varsSim, varsEmo>>
InitSpecRec == InitRec /\ ParkedSel /\ ParkedNorm /\ ParkedScore /\ ParkedFetch /\ ParkedSim /\ ParkedEmo
SpecRec == InitSpecRec /\ [][NextRec]_vars

NextSel ==
    \/ Select /\ UNCHANGED <<varsRec, varsNorm, varsScore, varsFetch, varsSim, varsEmo>>
    \/ \E t \in KeywordType : SelectRaised(t, 1) /\ UNCHANGED <<varsRec, varsNorm, varsScore, varsFetch, varsSim, varsEmo>>
InitSpecSel == InitSel /\ ParkedRec /\ ParkedNorm /\ ParkedScore /\ ParkedFetch /\ ParkedSim /\ ParkedEmo
SpecSel == InitSpecSel /\ [][NextSel]_vars

NextNorm ==
    \/ Normalize /\ UNCHANGED <<varsRec, varsSel, varsScore, varsFetch, varsSim, varsEmo>>
    \/ Fallback /\ UNCHANGED <<varsRec, varsSel, varsScore, varsFetch, varsSim, varsEmo>>
InitSpecNorm == InitNorm /\ ParkedRec /\ ParkedSel /\ ParkedScore /\ ParkedFetch /\ ParkedSim /\ ParkedEmo
SpecNorm == InitSpecNorm /\ [][NextNorm]_vars

NextScore ==
    \/ \E p \in Procs : ScoreEndpoint(p) /\ UNCHANGED <<varsRec, varsSel, varsNorm, varsFetch, varsSim, varsEmo>>
    \/ \E p \in Procs : Commit(p) /\ UNCHANGED <<varsRec, varsSel, varsNorm, varsFetch, varsSim, varsEmo>>
    \/ \E p \in Procs : CommitFails(p) /\ UNCHANGED <<varsRec, varsSel, varsNorm, varsFetch, varsSim, varsEmo>>
    \/ \E p \in Procs : Conflict(p) /\ UNCHANGED <<varsRec, varsSel, varsNorm, varsFetch, varsSim, varsEmo>>
    \/ \E p \in Procs : Commit2(p) /\ UNCHANGED <<varsRec, varsSel, varsNorm, varsFetch, varsSim, varsEmo>>
Init == InitScore /\ ParkedRec /\ ParkedSel /\ ParkedNorm /\ ParkedFetch /\ ParkedSim /\ ParkedEmo
Spec == Init /\ [][NextScore]_vars

\* score_video under direct calls, two callers at a time.
NextEngine ==
    \/ \E p \in Procs : ScoreVideo(p) /\ UNCHANGED <<varsRec, varsSel, varsNorm, varsFetch, varsSim, varsEmo>>
    \/ \E p \in Procs : Commit(p) /\ UNCHANGED <<varsRec, varsSel, varsNorm, varsFetch, varsSim, varsEmo>>
    \/ \E p \in Procs : Conflict(p) /\ UNCHANGED <<varsRec, varsSel, varsNorm, varsFetch, varsSim, varsEmo>>
    \/ \E p \in Procs : Commit2(p) /\ UNCHANGED <<varsRec, varsSel, varsNorm, varsFetch, varsSim, varsEmo>>
InitSpecEngine == InitScore /\ ParkedRec /\ ParkedSel /\ ParkedNorm /\ ParkedFetch /\ ParkedSim /\ ParkedEmo
SpecEngine == InitSpecEngine /\ [][NextEngine]_vars

NextBatch ==
    \/ \E p \in Procs : BatchBegin(p) /\ UNCHANGED <<varsRec, varsSel, varsNorm, varsFetch, varsSim, varsEmo>>
    \/ \E p \in Procs : BatchStep(p) /\ UNCHANGED <<varsRec, varsSel, varsNorm, varsFetch, varsSim, varsEmo>>
    \/ \E p \in Procs : BatchReturn(p) /\ UNCHANGED <<varsRec, varsSel, varsNorm, varsFetch, varsSim, varsEmo>>
    \/ \E p \in Procs : Commit(p) /\ UNCHANGED <<varsRec, varsSel, varsNorm, varsFetch, varsSim, varsEmo>>
    \/ \E p \in Procs : CommitFails(p) /\ UNCHANGED <<varsRec, varsSel, varsNorm, varsFetch, varsSim, varsEmo>>
    \/ \E p \in Procs : Conflict(p) /\ UNCHANGED <<varsRec, varsSel, varsNorm, varsFetch, varsSim, varsEmo>>
    \/ \E p \in Procs : Commit2(p) /\ UNCHANGED <<varsRec, varsSel, varsNorm, varsFetch, varsSim, varsEmo>>
InitSpecBatch == InitBatch /\ ParkedRec /\ ParkedSel /\ ParkedNorm /\ ParkedFetch /\ ParkedSim /\ ParkedEmo
SpecBatch == InitSpecBatch /\ [][NextBatch]_vars

NextFetch ==
    FetchCycle(Faults) /\ UNCHANGED <<varsRec, varsSel, varsNorm, varsScore, varsSim, varsEmo>>
InitSpecFetch ==
    InitFetch /\ ParkedRec /\ ParkedSel /\ ParkedNorm /\ ParkedScore /\ ParkedSim /\ ParkedEmo
SpecFetch == InitSpecFetch /\ [][NextFetch]_vars

\* The fetch cycles together with the other operations on the keywords.
NextKeywordOps ==
    \/ FetchCycle(KeywordOpsFaults) /\ UNCHANGED <<varsRec, varsSel, varsNorm, varsScore, varsSim, varsEmo>>
    \/ FetchChannelsForCampaign /\ UNCHANGED <<varsRec, varsSel, varsNorm, varsScore, varsSim, varsEmo>>
    \/ UpdateKeywordStatus /\ UNCHANGED <<varsRec, varsSel, varsNorm, varsScore, varsSim, varsEmo>>
InitSpecKeywordOps ==
    InitKeywordOps /\ ParkedRec /\ ParkedSel /\ ParkedNorm /\ ParkedScore /\ ParkedSim /\ ParkedEmo
SpecKeywordOps == InitSpecKeywordOps /\ [][NextKeywordOps]_vars

\* Cycles in which neither the provider nor the database fails, taken again
\* and again: every request for a fetch is served.
NextRotate ==
    FetchCycle({NoFault}) /\ UNCHANGED <<varsRec, varsSel, varsNorm, varsScore, varsSim, varsEmo>>
SpecRotate == InitSpecFetch /\ [][NextRotate]_vars /\ WF_vars(NextRotate)

NextEmo ==
    HeuristicEmotion /\ UNCHANGED <<varsRec, varsSel, varsNorm, varsScore, varsFetch, varsSim>>
InitSpecEmo ==
    InitEmo /\ ParkedRec /\ ParkedSel /\ ParkedNorm /\ ParkedScore /\ ParkedFetch /\ ParkedSim
SpecEmo == InitSpecEmo /\ [][NextEmo]_vars

NextSim ==
    HeuristicSimilarity /\ UNCHANGED <<varsRec, varsSel, varsNorm, varsScore, varsFetch, varsEmo>>
InitSpecSim ==
    InitSim /\ ParkedRec /\ ParkedSel /\ ParkedNorm /\ ParkedScore /\ ParkedFetch /\ ParkedEmo
SpecSim == InitSpecSim /\ [][NextSim]_vars

(***************************************************************************)
(* C8: _determine_recommendation implements the ordered rule table, first  *)
(* match wins: unsafe gives (avoid, 0.0) for every score and suitability;  *)
(* else score >= 0.8 and high gives (strong_match, 1.35); else score >=    *)
(* 0.6 and high or medium gives (moderate_match, 1.1); else score >= 0.4   *)
(* gives (weak_match, 0.9); otherwise (avoid, 0.0).                        *)
(***************************************************************************)
C8_RuleTable ==
    rcOut # NoRecommendation =>
        LET score == rcIn.contextual_score
            suit == rcIn.brand_suitability
            unsafe == rcIn.brand_safety_status = "unsafe"
            strong == ~unsafe /\ score >= 80000 /\ suit = "high"
            moderate == ~unsafe /\ ~strong /\ score >= 60000 /\ suit \in {"high", "medium"}
            weak == ~unsafe /\ ~strong /\ ~moderate /\ score >= 40000
        IN /\ unsafe => rcOut = <<"avoid", 0>>
           /\ strong => rcOut = <<"strong_match", 135000>>
           /\ moderate => rcOut = <<"moderate_match", 110000>>
           /\ weak => rcOut = <<"weak_match", 90000>>
           /\ (~unsafe /\ ~strong /\ ~moderate /\ ~weak) => rcOut = <<"avoid", 0>>

\* A score that passes the strong threshold with a suitability that only the
\* moderate rule accepts.
C8_Witness ==
    /\ rcOut = <<"moderate_match", 110000>>
    /\ rcIn.contextual_score >= 80000
    /\ rcIn.brand_suitability = "medium"

(***************************************************************************)
(* C5: for a non-empty keyword list with distinct ids, any weight map and  *)
(* any budget b with 1 <= b <= number of keywords, the selector returns    *)
(* exactly b keywords and no keyword id twice.                             *)
(***************************************************************************)
C5_BudgetConservation ==
    (selPhase # "input" /\ selIn.budget >= 1 /\ selIn.budget <= Len(selIn.keywords)) =>
        /\ ~selOut.raised
        /\ Len(selOut.selected) = selIn.budget
        /\ \A i, j \in 1..Len(selOut.selected) :
                selOut.selected[i].id = selOut.selected[j].id => i = j

\* Entitled(t): budget * weight >= bucket size + 1, so the base take is capped.
BucketCapped(t) ==
    LET size == BucketSizes(selIn.keywords)
        av == AvailableTypes(size)
    IN /\ size[t] > 0
       /\ selIn.budget * WeightNums(av, selIn.weights)[t]
            >= (size[t] + 1) * WeightDen(av, selIn.weights)

\* A selection over three categories in which one bucket is smaller than its
\* entitlement and the budget is smaller than the supply.
C5_Witness ==
    /\ selPhase = "selected"
    /\ ~selOut.raised
    /\ selIn.budget < Len(selIn.keywords)
    /\ Len(AvailableTypes(BucketSizes(selIn.keywords))) >= 3
    /\ \E t \in KeywordType : BucketCapped(t)
    /\ Len(selOut.selected) = selIn.budget

(***************************************************************************)
(* C6: for a fixed keyword set and budget, raising one category's weight   *)
(* (the other raw weights unchanged) never decreases the number of         *)
(* keywords selected from that category.                                   *)
(***************************************************************************)
C6_WeightMonotone ==
    selPhase = "raised" =>
        selRaised.out.mix[selRaised.keyword_type] >= selOut.mix[selRaised.keyword_type]

\* The raised category gains a keyword while another bucket is smaller than its
\* entitlement.
C6_Witness ==
    /\ selPhase = "raised"
    /\ selRaised.out.mix[selRaised.keyword_type] > selOut.mix[selRaised.keyword_type]
    /\ \E t \in KeywordType : t # selRaised.keyword_type /\ BucketCapped(t)

(***************************************************************************)
(* C7 as stated: when every present category has zero weight, the count of *)
(* each present category differs from budget / (number of present          *)
(* categories) by at most 1.                                               *)
(***************************************************************************)
ZeroWeighted ==
    /\ selPhase # "input"
    /\ ~selOut.raised
    /\ \A t \in KeywordType :
            BucketSizes(selIn.keywords)[t] > 0 => selIn.weights[t] <= 0

\* |mix[t] - budget / k| <= 1 for every present t, k the number of present types.
WithinOneOfUniform ==
    LET size == BucketSizes(selIn.keywords)
        k == Len(AvailableTypes(size))
        budget == Min2(Len(selIn.keywords), selIn.budget)
    IN \A t \in KeywordType :
            size[t] > 0 =>
                /\ k * selOut.mix[t] - budget <= k
                /\ budget - k * selOut.mix[t] <= k

C7_UniformFallback_Original == ZeroWeighted => WithinOneOfUniform

(***************************************************************************)
(* C7 amended: when every present category has zero weight and every       *)
(* present category holds at least budget / (number of present categories) *)
(* keywords, rounded up, the count of each present category differs from   *)
(* the uniform share by at most 1.                                         *)
(***************************************************************************)
BucketsCoverUniformShare ==
    LET size == BucketSizes(selIn.keywords)
        k == Len(AvailableTypes(size))
        budget == Min2(Len(selIn.keywords), selIn.budget)
    IN \A t \in KeywordType : size[t] > 0 => k * size[t] >= budget

C7_UniformFallback ==
    (ZeroWeighted /\ BucketsCoverUniformShare) => WithinOneOfUniform

\* Zero weights over two present categories, a budget the categories do not
\* divide, and every bucket large enough.
C7_Witness ==
    /\ ZeroWeighted
    /\ BucketsCoverUniformShare
    /\ Len(AvailableTypes(BucketSizes(selIn.keywords))) = 2
    /\ selIn.budget = 3
    /\ Len(selOut.selected) = 3

(***************************************************************************)
(* C4: _payload_from_llm never raises: for every answer of the language    *)
(* model, whatever the types and values of its fields, it returns a        *)
(* payload whose four enumerated fields are recognized members and whose   *)
(* scores lie in [0, 1] and bid modifier in [0, 2].                        *)
(***************************************************************************)
PayloadWellFormed(payload) ==
    /\ payload.brand_safety_status \in BrandSafetyStatus
    /\ payload.brand_suitability \in BrandSuitability
    /\ payload.sentiment \in Sentiment
    /\ payload.targeting_recommendation \in TargetingRecommendation
    /\ \A x \in {payload.semantic_similarity_score, payload.intent_score,
                 payload.interest_score, payload.emotion_score,
                 payload.contextual_score} : 0 <= x /\ x <= One
    /\ 0 <= payload.suggested_bid_modifier
    /\ payload.suggested_bid_modifier <= 2 * One

C4_NormalizerTotal ==
    nmPhase # "input" =>
        /\ nmOut.raised = "none"
        /\ PayloadWellFormed(nmOut.payload)

\* What does hold: an answer that is a dict whose bid modifier converts to a
\* float is normalized to a well-formed payload.
C4_NormalizerTotalOnConvertibleBid ==
    (nmPhase # "input" /\ nmIn.raw.t = "dict" /\ FloatOf(GetBid(nmIn.raw))[1]) =>
        /\ nmOut.raised = "none"
        /\ PayloadWellFormed(nmOut.payload)

(***************************************************************************)
(* Rows of a (campaign, video) pair, by the video's key.                   *)
(***************************************************************************)
RowsOf(v) == Existing(scores, VideoByKey(v).campaign_id, v)

AllIdle == \A p \in Procs : pc[p] = "idle"

(***************************************************************************)
(* C1: after any sequence of score_video calls that do not overlap, every  *)
(* (campaign, video) pair that was scored at least once has exactly one    *)
(* video_scores row, and every payload field of the row equals the payload *)
(* computed by the most recent successful call for the pair.               *)
(***************************************************************************)
C1_IdempotentUpsert ==
    ~overlapped =>
        \A v \in VideoKeys :
            lastOk[v] # NoPayload =>
                /\ Cardinality(RowsOf(v)) = 1
                /\ \A r \in RowsOf(v) : \A f \in PayloadFields : r.payload[f] = lastOk[v][f]

\* Two calls in a row for video v1 returned records with different scores;
\* the row holds the second one.
C1_Witness ==
    /\ ~overlapped
    /\ AllIdle
    /\ out[1].status = "ok" /\ out[2].status = "ok"
    /\ out[1].video = "v1" /\ out[2].video = "v1"
    /\ out[1].contextual_score # out[2].contextual_score
    /\ \E r \in RowsOf("v1") : r.payload.contextual_score = out[2].contextual_score

(***************************************************************************)
(* C2: when two score_video calls for one (campaign, video) pair both find *)
(* no record and both insert, the call whose commit hits the unique        *)
(* constraint rolls back, re-reads, overwrites and commits: if the         *)
(* database fails no commit, neither call fails, and the pair ends with    *)
(* exactly one row, holding the whole payload of the call that committed   *)
(* last.                                                                   *)
(***************************************************************************)
C2_ConflictRetry ==
    \A p \in Procs :
        (calls = 2 /\ AllIdle /\ dbFailures = 0 /\ out[p].conflicted) =>
            /\ \A q \in Procs : out[q].status = "ok" /\ out[q].video = out[p].video
            /\ session[p] = "active"
            /\ Cardinality({r \in scores : r.video_id = out[p].video}) = 1
            /\ \A r \in RowsOf(out[p].video) :
                  /\ r.payload = lastOk[out[p].video]
                  /\ r.payload.contextual_score = out[p].contextual_score

\* Both calls inserted, the second met the conflict and replaced the first
\* call's payload by a different one.
C2_Witness ==
    /\ calls = 2 /\ AllIdle /\ dbFailures = 0
    /\ out[2].conflicted
    /\ out[1].status = "ok" /\ out[2].status = "ok"
    /\ out[1].contextual_score # out[2].contextual_score
    /\ \E r \in RowsOf(out[2].video) : r.payload.contextual_score = out[2].contextual_score

(***************************************************************************)
(* C3: score_video returns a persisted record for every outcome of the     *)
(* transcript fetch and of the completion provider (raising, timing out,   *)
(* malformed JSON, a JSON value with missing, extra or wrong-typed         *)
(* fields): unless the repository fails, no call raises.                   *)
(***************************************************************************)
C3_AlwaysReturns ==
    \A p \in Procs :
        (out[p].status \in {"ok", "raised"} /\ ~out[p].db_failed) =>
            /\ out[p].status = "ok"
            /\ RowsOf(out[p].video) # {}

(***************************************************************************)
(* The ids of the request whose log entry satisfies Keep, in request order. *)
(***************************************************************************)
RequestIdsWhere(Keep(_)) ==
    LET idx == {i \in 1..Len(batch.log) : Keep(batch.log[i])}
    IN  [k \in 1..Cardinality(idx) |->
            batch.video_ids[CHOOSE i \in idx : Cardinality({j \in idx : j < i}) = k - 1]]

EntryIds(entries) == [k \in 1..Len(entries) |-> entries[k].video_id]

(***************************************************************************)
(* C9: the batch handler processes every id of the request once, in        *)
(* request order; each id gives one entry, in results or in errors, so     *)
(* processed + failed is the number of ids; and a failure on one id (video *)
(* not found, or any exception of score_video, a repository write failure  *)
(* included) neither stops the batch nor changes the outcome of the ids    *)
(* after it: no id is refused because of what an earlier id left behind.   *)
(***************************************************************************)
C9_BatchIsolation ==
    batch.status = "returned" =>
        /\ Len(batch.results) + Len(batch.errors) = Len(batch.video_ids)
        /\ Len(batch.log) = Len(batch.video_ids)
        /\ EntryIds(batch.results) = RequestIdsWhere(LAMBDA e : e.status = "ok")
        /\ EntryIds(batch.errors) = RequestIdsWhere(LAMBDA e : e.status # "ok")
        /\ \A k \in 1..Len(batch.errors) :
              batch.errors[k].error # "PendingRollbackError"

\* What does hold: one entry per id, in request order.
C9_OneEntryPerId ==
    batch.status = "returned" =>
        /\ Len(batch.results) + Len(batch.errors) = Len(batch.video_ids)
        /\ Len(batch.log) = Len(batch.video_ids)
        /\ EntryIds(batch.results) = RequestIdsWhere(LAMBDA e : e.status = "ok")
        /\ EntryIds(batch.errors) = RequestIdsWhere(LAMBDA e : e.status # "ok")

(***************************************************************************)
(* C10 as stated: in a batch of 3 ids where the completion provider raises *)
(* for the second one (and the first and the third are scored), the result *)
(* has exactly 2 successes and 1 error entry, the error entry being for    *)
(* the second id, and the third id is processed.                           *)
(***************************************************************************)
ProviderErrorOnSecond ==
    /\ batch.status = "returned"
    /\ Len(batch.video_ids) = 3
    /\ batch.log[2].llm = "raises"
    /\ batch.log[1].status = "ok"
    /\ batch.log[3].status = "ok"

C10_ProviderErrorIsAnErrorEntry ==
    ProviderErrorOnSecond =>
        /\ Len(batch.results) = 2
        /\ Len(batch.errors) = 1
        /\ batch.errors[1].video_id = batch.video_ids[2]

(***************************************************************************)
(* C10, amended: in a batch of 3 ids where the completion provider raises  *)
(* for the second one and the first and the third are scored, score_video  *)
(* catches the provider's exception and scores the second id from the      *)
(* heuristics: the result has 3 successes and no error entry, and the      *)
(* third id is processed.                                                  *)
(***************************************************************************)
C10_ProviderErrorFallsBack ==
    ProviderErrorOnSecond =>
        /\ Len(batch.results) = 3
        /\ Len(batch.errors) = 0
        /\ batch.results[2].video_id = batch.video_ids[2]
        /\ batch.results[3].video_id = batch.video_ids[3]

C10_Witness ==
    /\ ProviderErrorOnSecond
    /\ Len(batch.results) = 3
    /\ batch.video_ids = <<"yt1", "yt2", "yt1">>

(***************************************************************************)
(* C11: the writes of one fetch cycle, the rotation fields of the selected *)
(* keywords and the new video records, are one transaction.  After a cycle *)
(* that committed, every keyword update and every new video of the session *)
(* is stored and nothing else changed; after any other cycle, a failed     *)
(* commit included, the keywords and the videos are what they were before  *)
(* the cycle.                                                              *)
(***************************************************************************)
RowOf(db, id) == db.keywords[CHOOSE i \in 1..Len(db.keywords) : db.keywords[i].id = id]

AllWritten(before, after, pending) ==
    /\ after.videos = before.videos \cup pending.videos
    /\ Len(after.keywords) = Len(before.keywords)
    /\ \A i \in 1..Len(before.keywords) :
            after.keywords[i] =
                IF before.keywords[i].id \in DOMAIN pending.keywords
                THEN pending.keywords[before.keywords[i].id]
                ELSE before.keywords[i]

C11_CycleIsOneTransaction ==
    fetch.result.status # "none" =>
        IF fetch.result.status = "committed"
        THEN /\ AllWritten(fetch.before, tables, fetch.result.pending)
             /\ DOMAIN fetch.result.pending.keywords = Range(fetch.result.selected)
        ELSE tables = fetch.before

\* A commit failed with new videos and keyword updates pending.
C11_Witness ==
    /\ fetch.result.status = "db_error"
    /\ fetch.result.pending.videos # {}
    /\ \E id \in DOMAIN fetch.result.pending.keywords :
            fetch.result.pending.keywords[id].total_results
                > RowOf(fetch.before, id).total_results
    /\ tables = fetch.before

(***************************************************************************)
(* C12: over the cycles no keyword's fetch_count, total_results or         *)
(* last_fetched_at decreases, and a cycle that committed has raised the    *)
(* fetch_count of every selected keyword by exactly 1 and its              *)
(* total_results by the number of distinct video ids that the search for   *)
(* that keyword returned.                                                  *)
(***************************************************************************)
\* The position of a keyword among the selected ones: its search is the
\* one at that position.
SearchOf(id) ==
    CHOOSE i \in 1..Len(fetch.result.selected) : fetch.result.selected[i] = id

DistinctReturned(id) == Cardinality(Range(fetch.result.answers[SearchOf(id)].ids))

C12_NeverDecrease ==
    fetch.result.status # "none" =>
        \A i \in 1..Len(tables.keywords) :
            /\ tables.keywords[i].id = fetch.before.keywords[i].id
            /\ tables.keywords[i].fetch_count >= fetch.before.keywords[i].fetch_count
            /\ tables.keywords[i].total_results >= fetch.before.keywords[i].total_results
            /\ tables.keywords[i].last_fetched_at >= fetch.before.keywords[i].last_fetched_at

C12_RotationFieldsGrow ==
    /\ C12_NeverDecrease
    /\ fetch.result.status = "committed" =>
        \A id \in Range(fetch.result.selected) :
            /\ RowOf(tables, id).fetch_count = RowOf(fetch.before, id).fetch_count + 1
            /\ RowOf(tables, id).total_results =
                    RowOf(fetch.before, id).total_results + DistinctReturned(id)

\* The growth of C12 for the selected keywords whose text no other selected
\* keyword has.
TextOnce(id) ==
    \A other \in Range(fetch.result.selected) :
        other # id => RowOf(fetch.before, other).keyword # RowOf(fetch.before, id).keyword

C12_RotationFieldsGrowOnDistinctTexts ==
    fetch.result.status = "committed" =>
        \A id \in Range(fetch.result.selected) :
            /\ RowOf(tables, id).fetch_count = RowOf(fetch.before, id).fetch_count + 1
            /\ TextOnce(id) =>
                    RowOf(tables, id).total_results =
                        RowOf(fetch.before, id).total_results + DistinctReturned(id)

(***************************************************************************)
(* C13: when the campaign has more active keywords than the rotation       *)
(* width, repeated fetch cycles select every active keyword in some cycle, *)
(* whatever numbers of hits the provider returns, cycles without any video *)
(* included.                                                               *)
(***************************************************************************)
ActiveIds ==
    {tables.keywords[i].id : i \in {j \in 1..Len(tables.keywords) :
                                        tables.keywords[j].status = "active"}}

C13_NoStarvation ==
    (Cardinality(ActiveIds) > RotationWidth) ~> (ActiveIds \subseteq everSelected)

\* The same under cycles that all find a video: every cycle reaches the
\* keyword updates.
C13_RotatesWhenVideosAreFound ==
    (Cardinality(ActiveIds) > RotationWidth /\ clock = MaxCycles)
        => ActiveIds \subseteq everSelected

(***************************************************************************)
(* C14: a provider failure on one keyword, of whatever kind, makes         *)
(* search_videos record an empty list for that keyword and go on with the  *)
(* remaining keywords, whose results it returns; the search never aborts.  *)
(* The code does so for every failure except an HTTP 403, which aborts the *)
(* search and the cycle.                                                   *)
(***************************************************************************)
SearchedText(i) == RowOf(fetch.before, fetch.result.selected[i]).keyword

\* What keyword_results holds for the i-th search when the loop went through:
\* the list of the last search of the same text.
Recorded(i) ==
    LET last == CHOOSE j \in 1..Len(fetch.result.selected) :
                    /\ SearchedText(j) = SearchedText(i)
                    /\ \A k \in (j + 1)..Len(fetch.result.selected) :
                            SearchedText(k) # SearchedText(i)
    IN IF fetch.result.answers[last].kind = "items"
       THEN fetch.result.answers[last].ids ELSE <<>>

SearchWentThrough ==
    /\ ~fetch.result.search.raised
    /\ fetch.result.search.searched = Len(fetch.result.selected)
    /\ \A i \in 1..Len(fetch.result.selected) :
            /\ SearchedText(i) \in DOMAIN fetch.result.search.keyword_results
            /\ fetch.result.search.keyword_results[SearchedText(i)] = Recorded(i)
    /\ fetch.result.search.video_ids =
            UNION {Range(fetch.result.answers[i].ids) :
                        i \in {j \in 1..Len(fetch.result.selected) :
                                    fetch.result.answers[j].kind = "items"}}

FailedSearches ==
    {i \in 1..Len(fetch.result.answers) : fetch.result.answers[i].kind # "items"}

C14_SearchNeverAborts ==
    FailedSearches # {} => SearchWentThrough

C14_SearchAbortsOn403Only ==
    FailedSearches # {} =>
        IF \E i \in FailedSearches : fetch.result.answers[i].kind = "http403"
        THEN /\ fetch.result.search.raised
             /\ fetch.result.answers[fetch.result.search.searched].kind = "http403"
             /\ fetch.result.status = "search_raised"
             /\ tables = fetch.before
        ELSE SearchWentThrough

\* One search failed without a 403 and the videos of the others came back.
C14_Witness ==
    /\ \E i \in FailedSearches : fetch.result.answers[i].kind = "error"
    /\ SearchWentThrough
    /\ fetch.result.search.video_ids # {}
    /\ \E i \in FailedSearches :
            fetch.result.search.keyword_results[SearchedText(i)] = <<>>

(***************************************************************************)
(* C17: in one fetch cycle the number of videos requested from the         *)
(* provider, the number of selected keywords times the per-keyword limit,  *)
(* and the number of new videos stored are at most max_results, also when  *)
(* max_results is smaller than the number of selected keywords.            *)
(***************************************************************************)
Requested == Len(fetch.result.selected) * fetch.result.max_per_keyword

Searched == fetch.result.status \notin {"none", "value_error"}

C17_RequestedWithinMaxResultsWhenLarge ==
    (Searched /\ fetch.result.max_results >= Len(fetch.result.selected)) =>
        /\ Requested <= fetch.result.max_results
        /\ Cardinality(fetch.result.new_videos) <= fetch.result.max_results

(***************************************************************************)
(* C15: every payload that score_video persists, the normalized answer of  *)
(* the model as well as the heuristic fallback, has its four sub-scores    *)
(* and its contextual score in [0, 1], its bid modifier in [0, 2] and its  *)
(* four enumerated fields among the members of their enumerations.         *)
(***************************************************************************)
C15_PersistedPayloadInRange ==
    /\ (nmPhase # "input" /\ nmOut.raised = "none") => PayloadWellFormed(nmOut.payload)
    /\ nmPhase = "fallback" => PayloadWellFormed(nmFallback)
    /\ \A row \in scores : PayloadWellFormed(row.payload)

\* The model answered with scores above 1, a negative contextual score and a
\* bid modifier above 2; both payloads are computed.
C15_Witness ==
    /\ nmPhase = "fallback"
    /\ nmOut.raised = "none"
    /\ nmIn.raw.f["intent_score"] = Num(150000)
    /\ nmIn.raw.f["contextual_score"] = Num(0 - 20000)
    /\ nmIn.raw.f["suggested_bid_modifier"] = Num(250000)
    /\ nmIn.raw.f["targeting_recommendation"] = Str("strong_match")
    /\ nmOut.payload.intent_score = One
    /\ nmOut.payload.contextual_score = 0
    /\ nmOut.payload.suggested_bid_modifier = 2 * One

(***************************************************************************)
(* C16: in every persisted payload the lists interest_topics, key_topics   *)
(* and key_entities hold at most 3 entries each, whether they come from    *)
(* the model or from the heuristic baseline.  The code bounds              *)
(* interest_topics by 3 on both paths and the heuristic key_entities by 3; *)
(* the heuristic key_topics hold up to 5 entries, and key_topics and       *)
(* key_entities of the model are stored as they came.                      *)
(***************************************************************************)
ListLen(v) == IF v.t = "list" THEN Len(v.l) ELSE 0

AtMostThree(payload) ==
    /\ Len(payload.interest_topics) <= 3
    /\ ListLen(payload.key_topics) <= 3
    /\ ListLen(payload.key_entities) <= 3

C16_ListsAtMostThree ==
    /\ (nmPhase # "input" /\ nmOut.raised = "none") => AtMostThree(nmOut.payload)
    /\ nmPhase = "fallback" => AtMostThree(nmFallback)

HeuristicListBounds(payload) ==
    /\ Len(payload.interest_topics) <= 3
    /\ ListLen(payload.key_topics) <= 5
    /\ ListLen(payload.key_entities) <= 3

C16_ListBounds ==
    /\ (nmPhase # "input" /\ nmOut.raised = "none") =>
        /\ Len(nmOut.payload.interest_topics) <= 3
        /\ IF Truthy(nmIn.raw.f["key_topics"])
           THEN nmOut.payload.key_topics = nmIn.raw.f["key_topics"]
           ELSE ListLen(nmOut.payload.key_topics) <= 5
        /\ IF Truthy(nmIn.raw.f["key_entities"])
           THEN nmOut.payload.key_entities = nmIn.raw.f["key_entities"]
           ELSE ListLen(nmOut.payload.key_entities) <= 3
    /\ nmPhase = "fallback" => HeuristicListBounds(nmFallback)

\* The model gave five interest topics and four key topics, and the
\* heuristic baseline of the video has five key topics.
C16_Witness ==
    /\ nmPhase = "fallback"
    /\ nmOut.raised = "none"
    /\ nmIn.raw.f["interest_topics"].t = "list"
    /\ Len(nmIn.raw.f["interest_topics"].l) = 5
    /\ Len(nmOut.payload.interest_topics) = 3
    /\ ListLen(nmOut.payload.key_topics) = 4
    /\ ListLen(nmFallback.key_topics) = 5
    /\ ListLen(nmFallback.key_entities) = 3

(***************************************************************************)
(* C18: the heuristic semantic_similarity_score is the Jaccard index of    *)
(* the campaign token set and the video token set (here: to the three      *)
(* decimals the score carries); it lies in [0,1] for all token sets, is 0  *)
(* when either set is empty, is 1 when the two sets are identical and not  *)
(* empty, and is greater than 0 exactly when the sets share a token.       *)
(***************************************************************************)
SharedTokens == Cardinality(sim.video_set \cap sim.campaign_set)
AllTokens == Cardinality(sim.video_set \cup sim.campaign_set)

\* the score is the quotient SharedTokens / AllTokens to half a thousandth
CloseToJaccard ==
    (sim.video_set # {} /\ sim.campaign_set # {}) =>
        /\ sim.score * AllTokens - One * SharedTokens <= 50 * AllTokens
        /\ One * SharedTokens - sim.score * AllTokens <= 50 * AllTokens

SimilarityBasics ==
    /\ CloseToJaccard
    /\ 0 <= sim.score /\ sim.score <= One
    /\ (sim.video_set = {} \/ sim.campaign_set = {}) => sim.score = 0
    /\ (sim.video_set = sim.campaign_set /\ sim.video_set # {}) => sim.score = One

C18_PositiveExactlyWhenShared ==
    sim.scored =>
        /\ SimilarityBasics
        /\ sim.score > 0 <=> SharedTokens > 0

\* C18 as the code has it: the score is the Jaccard index rounded to three
\* decimals, in [0,1], 0 when either set is empty, 1 when the sets are
\* identical and not empty, 0 when the sets share no token, greater than 0
\* when more than one token in 2000 is shared and 0 when fewer than one token
\* in 2000 is shared.
C18_PositiveWhenSharedEnough ==
    sim.scored =>
        /\ SimilarityBasics
        /\ SharedTokens = 0 => sim.score = 0
        /\ 2000 * SharedTokens > AllTokens => sim.score > 0
        /\ 2000 * SharedTokens < AllTokens => sim.score = 0

C18_Witness ==
    /\ sim.scored
    /\ sim.score = 0
    /\ SharedTokens > 0
    /\ 2000 * SharedTokens < AllTokens

(***************************************************************************)
(* C19: when the write of score_video fails for a reason other than the    *)
(* uniqueness conflict, the error is propagated to the caller and no       *)
(* partial state is left: the stored record of the pair is what it was     *)
(* before the call, and the failed write leaves nothing behind that a      *)
(* later operation on the same session could persist or trip over.         *)
(***************************************************************************)
\* This step is a commit of process p that failed with no IntegrityError.
WriteFailsNow(p) ==
    /\ pc[p] \in {"commit", "commit2"}
    /\ pc'[p] = "idle"
    /\ IF IsBatch(p)
         THEN /\ Len(batch'.log) = Len(batch.log) + 1
              /\ batch'.log[Len(batch'.log)].db_failed
       ELSE out'[p].db_failed

\* The caller of score_video got the exception: the endpoint raised, the
\* batch loop made an error entry for the id.
PropagatedNow(p) ==
    IF IsBatch(p)
       THEN /\ Len(batch'.errors) = Len(batch.errors) + 1
            /\ batch'.errors[Len(batch'.errors)].video_id = cur[p].request
            /\ batch'.results = batch.results
    ELSE out'[p].status = "raised"

\* This step is an operation that met a session left in a failed transaction.
TripsNow ==
    /\ Len(batch'.errors) = Len(batch.errors) + 1
    /\ batch'.errors[Len(batch'.errors)].error = "PendingRollbackError"

C19_FailedWritePropagates ==
    [][\A p \in Procs : WriteFailsNow(p) => PropagatedNow(p) /\ scores' = scores]_vars

\* A failed write of the batch has happened.
C19_Reached ==
    \E k \in 1..Len(batch.log) : batch.log[k].db_failed

(***************************************************************************)
(* C20: when the completion call fails in score_video (provider error,     *)
(* timeout or malformed JSON), the persisted payload is exactly the        *)
(* heuristic fallback payload: sub-scores from the heuristic baseline,     *)
(* contextual_score = 0.40*semantic + 0.25*intent + 0.20*interest +        *)
(* 0.15*emotion, brand safety from the risky/review term rule, and         *)
(* suitability, recommendation and bid from the decision tables, with no   *)
(* value taken from the model.                                             *)
(***************************************************************************)
\* 0.40*semantic + 0.25*intent + 0.20*interest + 0.15*emotion of a payload
WeightedSumOf(payload) ==
    (40 * payload.semantic_similarity_score + 25 * payload.intent_score
        + 20 * payload.interest_score + 15 * payload.emotion_score) \div 100

\* Every field of the payload but contextual_score is the heuristic one.
HeuristicButContextual(payload, video, h) ==
    /\ payload.semantic_similarity_score = h.semantic_similarity_score
    /\ payload.intent_score = h.intent_score
    /\ payload.interest_score = h.interest_score
    /\ payload.emotion_score = h.emotion_score
    /\ payload.intent_type = Str(h.intent_type)
    /\ payload.interest_topics = h.interest_topics
    /\ payload.emotion_type = h.emotion_type
    /\ payload.sentiment = h.sentiment
    /\ payload.tone = Str(h.tone)
    /\ payload.key_entities = List(h.key_entities)
    /\ payload.key_topics = List(h.key_topics)
    /\ payload.brand_safety_status = HeuristicBrandSafety(video, h.sentiment)
    /\ payload.brand_suitability =
          DetermineBrandSuitability(WeightedSumOf(payload),
                                    payload.brand_safety_status, payload.sentiment)
    /\ <<payload.targeting_recommendation, payload.suggested_bid_modifier>> =
          DetermineRecommendation(WeightedSumOf(payload), payload.brand_suitability,
                                  payload.brand_safety_status)

\* This step commits the payload of a call whose completion call failed,
\* with no other call under way since the table was empty.
FailedCompletionPersists(p) ==
    /\ ~overlapped
    /\ pc[p] \in {"commit", "commit2"}
    /\ cur[p].llm \in {"raises", "malformed"}
    /\ pc'[p] = "idle"
    /\ out'[p].status = "ok"

PersistedRows(p) == {r \in scores' : r.video_id = cur[p].video}

C20_FallbackExactly ==
    [][\A p \in Procs : FailedCompletionPersists(p) =>
          /\ PersistedRows(p) # {}
          /\ \A r \in PersistedRows(p) :
                \E h \in Heuristics(CampaignOf(VideoByKey(r.video_id)),
                                    VideoByKey(r.video_id)) :
                    /\ HeuristicButContextual(r.payload, VideoByKey(r.video_id), h)
                    /\ r.payload.contextual_score = WeightedSumOf(r.payload)]_vars

\* C20 as the code has it: the same, with the contextual_score persisted
\* being the weighted sum rounded to three decimals; the decision tables
\* take the sum before it is rounded.
C20_FallbackRounded ==
    [][\A p \in Procs : FailedCompletionPersists(p) =>
          /\ PersistedRows(p) # {}
          /\ \A r \in PersistedRows(p) :
                \E h \in Heuristics(CampaignOf(VideoByKey(r.video_id)),
                                    VideoByKey(r.video_id)) :
                    /\ HeuristicButContextual(r.payload, VideoByKey(r.video_id), h)
                    /\ r.payload.contextual_score
                          = RoundTo(WeightedSumOf(r.payload), 100)]_vars

\* A call has returned the row it wrote, the row holds a fallback payload,
\* and its contextual_score is not the weighted sum itself.
C20_Witness ==
    \E p \in Procs : \E r \in scores :
        /\ out[p].status = "ok"
        /\ r.video_id = out[p].video
        /\ \E h \in Heuristics(CampaignOf(VideoByKey(r.video_id)), VideoByKey(r.video_id)) :
              r.payload = FallbackPayload(CampaignOf(VideoByKey(r.video_id)),
                                          VideoByKey(r.video_id), h)
        /\ r.payload.contextual_score # WeightedSumOf(r.payload)

(***************************************************************************)
(* C21: the selected keywords are emitted grouped by category in the order *)
(* core, related, intent-based, long-tail, and within each category the    *)
(* selected keywords are the first k of that category's bucket sorted      *)
(* ascending by (total_results, last_fetched_at with unset as earliest,    *)
(* -relevance_score): no keyword is selected while a keyword of the same   *)
(* category that sorts before it is left out.                              *)
(***************************************************************************)
CategoryRank(t) ==
    CASE t = "core" -> 1
      [] t = "related" -> 2
      [] t = "intent-based" -> 3
      [] t = "long-tail" -> 4

\* (total_results, last_fetched_at, -relevance_score) of a before that of b
SortsBefore(a, b) ==
    \/ a.total_results < b.total_results
    \/ a.total_results = b.total_results /\ a.last_fetched_at < b.last_fetched_at
    \/ /\ a.total_results = b.total_results
       /\ a.last_fetched_at = b.last_fetched_at
       /\ a.relevance_score > b.relevance_score

SelectedIds == {selOut.selected[i].id : i \in 1..Len(selOut.selected)}

LeftOut ==
    {selIn.keywords[i] : i \in {j \in 1..Len(selIn.keywords) :
                                    selIn.keywords[j].id \notin SelectedIds}}

C21_GroupedPrefixes ==
    (selPhase # "input" /\ ~selOut.raised) =>
        /\ \A i, j \in 1..Len(selOut.selected) :
              i < j =>
                /\ CategoryRank(selOut.selected[i].keyword_type)
                      <= CategoryRank(selOut.selected[j].keyword_type)
                /\ selOut.selected[i].keyword_type = selOut.selected[j].keyword_type
                      => ~SortsBefore(selOut.selected[j], selOut.selected[i])
        /\ \A i \in 1..Len(selOut.selected) : \A u \in LeftOut :
              u.keyword_type = selOut.selected[i].keyword_type
                  => ~SortsBefore(u, selOut.selected[i])

\* Three categories are selected from, and in one of them a keyword that
\* comes later in the input is selected while an earlier one is left out.
C21_Witness ==
    /\ selPhase = "selected"
    /\ ~selOut.raised
    /\ Cardinality({selOut.selected[i].keyword_type : i \in 1..Len(selOut.selected)}) >= 3
    /\ \E i \in 1..Len(selOut.selected) : \E u \in LeftOut :
          /\ u.keyword_type = selOut.selected[i].keyword_type
          /\ u.id < selOut.selected[i].id
          /\ SortsBefore(selOut.selected[i], u)

(***************************************************************************)
(* C22: whenever budget <= total keyword supply, the remainder             *)
(* distribution of the selector (cycling over the categories by descending *)
(* remainder, skipping full buckets) hands out every remaining slot, so    *)
(* the weight-ordered fallback fill after it is never entered with slots   *)
(* still unallocated.                                                      *)
(***************************************************************************)
BudgetOfCall == Min2(Len(selIn.keywords), selIn.budget)

\* remaining_slots when the remainder distribution is over
SlotsAfterRemainder ==
    AfterRemainder(BucketSizes(selIn.keywords), BudgetOfCall, selIn.weights).remaining_slots

\* remaining_slots when the base takes are made
SlotsAfterBase ==
    With(BucketSizes(selIn.keywords), LAMBDA size :
    With(AvailableTypes(size), LAMBDA av :
    With(BaseTakes(size, BudgetOfCall, WeightNums(av, selIn.weights),
                   WeightDen(av, selIn.weights)), LAMBDA base :
        BudgetOfCall - SumSeq([i \in 1..Len(av) |-> base[av[i]]]))))

AllocatedInAll ==
    With(Allocation(BucketSizes(selIn.keywords), BudgetOfCall, selIn.weights),
         LAMBDA allocation :
            allocation["core"] + allocation["related"] + allocation["intent-based"]
                + allocation["long-tail"])

C22_RemainderHandsOutAll ==
    (selPhase # "input" /\ ~selOut.raised) => SlotsAfterRemainder = 0

\* C22 as the code has it: the remainder distribution stops after five rounds
\* over the categories (max_iterations), so it hands out every slot when at
\* most 5 are left after the base takes; the slots it leaves are handed out
\* by the fallback fill, after which the allocation is the budget.
C22_FallbackHandsOutTheRest ==
    (selPhase # "input" /\ ~selOut.raised) =>
        /\ SlotsAfterBase <= 5 => SlotsAfterRemainder = 0
        /\ AllocatedInAll = BudgetOfCall

\* The fallback fill is entered with a slot to hand out, the budget being
\* within the supply.
C22_Witness ==
    /\ selPhase = "selected"
    /\ ~selOut.raised
    /\ selIn.budget <= Len(selIn.keywords)
    /\ SlotsAfterRemainder > 0
    /\ Len(selOut.selected) = selIn.budget

(***************************************************************************)
(* C23: for every present category, the number of keywords the selector    *)
(* allocates to it is at least min(floor(budget * normalized_weight),      *)
(* bucket size) and at most the bucket size.                               *)
(***************************************************************************)
PresentTypes == {t \in KeywordType : BucketSizes(selIn.keywords)[t] > 0}

RawWeight(t) == IF selIn.weights[t] > 0 THEN selIn.weights[t] ELSE 0

RawWeightSum ==
    (IF "core" \in PresentTypes THEN RawWeight("core") ELSE 0)
        + (IF "related" \in PresentTypes THEN RawWeight("related") ELSE 0)
        + (IF "intent-based" \in PresentTypes THEN RawWeight("intent-based") ELSE 0)
        + (IF "long-tail" \in PresentTypes THEN RawWeight("long-tail") ELSE 0)

\* floor(budget * normalized_weight): the weight of t over the sum of the
\* present weights, or one over the number of present categories when that
\* sum is 0
FloorShare(t) ==
    IF RawWeightSum = 0 THEN BudgetOfCall \div Cardinality(PresentTypes)
    ELSE (BudgetOfCall * RawWeight(t)) \div RawWeightSum

RecommendationUnmatched ==
    /\ nmIn.raw.t = "dict"
    /\ LET v == nmIn.raw.f["targeting_recommendation"]
       IN ~(v.t = "str" /\ StripLower(v.s) \in TargetingRecommendation)

DecidedByTable(payload) ==
    <<payload.targeting_recommendation, payload.suggested_bid_modifier>>
        = DetermineRecommendation(payload.contextual_score, payload.brand_suitability,
                                  payload.brand_safety_status)

C24_TableDecides ==
    (nmPhase # "input" /\ RecommendationUnmatched) =>
        /\ nmOut.raised = "none"
        /\ DecidedByTable(nmOut.payload)

\* What does hold: the table decides when float() takes the model's bid
\* modifier, whatever its value.
C24_TableDecidesOnConvertibleBid ==
    (nmPhase # "input" /\ RecommendationUnmatched /\ FloatOf(GetBid(nmIn.raw))[1]) =>
        /\ nmOut.raised = "none"
        /\ DecidedByTable(nmOut.payload)

\* A recommendation that is no member, with a bid modifier of the model
\* that differs from the table's.
C24_Reached ==
    /\ nmPhase # "input"
    /\ nmIn.raw.t = "dict"
    /\ nmIn.raw.f["targeting_recommendation"] = Str("boost")
    /\ nmIn.raw.f["suggested_bid_modifier"] = Num(120000)
    /\ nmOut.raised = "none"
    /\ nmOut.payload.suggested_bid_modifier # 120000

(***************************************************************************)
(* C25: the normalized emotion_type is always one of the 9 values of the   *)
(* closed vocabulary; a model value equal to a vocabulary entry            *)
(* (case-insensitively) is kept, a value in the synonym table is mapped to *)
(* its vocabulary entry, and any other or missing value is normalized to   *)
(* "neutral".                                                              *)
(***************************************************************************)
GivenEmotion == nmIn.raw.f["emotion_type"]

EmotionIsEntry ==
    GivenEmotion.t = "str" /\ StripLower(GivenEmotion.s) \in EMOTION_OPTIONS

EmotionIsSynonym ==
    /\ GivenEmotion.t = "str"
    /\ StripLower(GivenEmotion.s) \notin EMOTION_OPTIONS
    /\ StripLower(GivenEmotion.s) \in DOMAIN EmotionSynonyms

\* the parts on entries and synonyms, and the closed vocabulary
EmotionKeptOrMapped ==
    /\ Cardinality(EMOTION_OPTIONS) = 9
    /\ nmOut.payload.emotion_type \in EMOTION_OPTIONS
    /\ EmotionIsEntry => nmOut.payload.emotion_type = StripLower(GivenEmotion.s)
    /\ EmotionIsSynonym =>
          nmOut.payload.emotion_type = EmotionSynonyms[StripLower(GivenEmotion.s)]

C25_OtherBecomesNeutral ==
    (nmPhase # "input" /\ nmOut.raised = "none") =>
        /\ EmotionKeptOrMapped
        /\ (~EmotionIsEntry /\ ~EmotionIsSynonym)
              => nmOut.payload.emotion_type = "neutral"

\* C25 as the code has it: any other or missing value is normalized to the
\* emotion_type of the heuristic baseline, which is an entry of the
\* vocabulary; "neutral" is what the baseline gives for a text with no
\* emotion term and a neutral sentiment.
C25_OtherBecomesHeuristic ==
    /\ (nmPhase # "input" /\ nmOut.raised = "none") =>
          /\ EmotionKeptOrMapped
          /\ nmIn.heuristic.emotion_type \in EMOTION_OPTIONS
          /\ (~EmotionIsEntry /\ ~EmotionIsSynonym)
                => nmOut.payload.emotion_type = nmIn.heuristic.emotion_type
    /\ nmPhase = "fallback" => nmFallback.emotion_type = nmIn.heuristic.emotion_type

\* A value of the model that is no entry and no synonym, normalized to an
\* emotion of the baseline that is not "neutral".
C25_Witness ==
    /\ nmPhase # "input"
    /\ nmOut.raised = "none"
    /\ GivenEmotion = Str("melancholic")
    /\ nmOut.payload.emotion_type = "persuasive"

(***************************************************************************)
(* C26: for all counts of positive and negative lexicon hits, including    *)
(* zero hits of both kinds, the heuristic emotion_score equals             *)
(* (positive_hits + 1) / (positive_hits + negative_hits + 1) clamped to    *)
(* [0.1, 1.0] (here: to the three decimals the score carries).             *)
(***************************************************************************)
\* score is num / den between 0.1 and 1, to half a thousandth
IsClampedQuotient(score, num, den) ==
    IF 10 * num <= den THEN score = One \div 10
    ELSE IF num >= den THEN score = One
    ELSE /\ score * den - One * num <= 50 * den
         /\ One * num - score * den <= 50 * den

C26_EmotionScoreFormula ==
    emo.scored =>
        IsClampedQuotient(emo.score, emo.positive_hits + 1,
                          emo.positive_hits + emo.negative_hits + 1)

\* C26 as the code has it: the formula holds when there is a hit of either
\* kind; with no hit at all total_hits is taken as 1 and the score is 0.5.
C26_EmotionScoreHalfWithoutHits ==
    emo.scored =>
        IF emo.positive_hits + emo.negative_hits = 0 THEN emo.score = One \div 2
        ELSE IsClampedQuotient(emo.score, emo.positive_hits + 1,
                               emo.positive_hits + emo.negative_hits + 1)

C26_Witness ==
    /\ emo.scored
    /\ emo.positive_hits = 0
    /\ emo.negative_hits = 0
    /\ emo.score = One \div 2


(***************************************************************************)
(* C27: a keyword's rotation fields change only in a fetch cycle that      *)
(* selected that keyword and consumed search quota for it: a cycle leaves  *)
(* the rotation fields of unselected keywords unchanged, does not advance  *)
(* the fields of a selected keyword whose search failed, and no other      *)
(* operation (channel fetch, keyword status update) writes them.           *)
(***************************************************************************)
RotationFields(kw) == <<kw.last_fetched_at, kw.fetch_count, kw.total_results>>

\* The step is a fetch cycle that committed and had selected the keyword id.
CommittedCycleSelecting(id) ==
    /\ fetch'.before = tables
    /\ fetch'.result.db = tables'
    /\ fetch'.result.status = "committed"
    /\ id \in Range(fetch'.result.selected)

\* The search of the cycle for the keyword id returned a response.
SearchAnswered(id) ==
    \A i \in 1..Len(fetch'.result.selected) :
        fetch'.result.selected[i] = id => fetch'.result.answers[i].kind = "items"

RotationFieldsWrittenAt(i) ==
    RotationFields(tables'.keywords[i]) # RotationFields(tables.keywords[i])

C27_WrittenOnlyAfterOwnSearch ==
    [][\A i \in 1..Len(tables.keywords) :
            RotationFieldsWrittenAt(i) =>
                /\ CommittedCycleSelecting(tables.keywords[i].id)
                /\ SearchAnswered(tables.keywords[i].id)]_vars

\* The same without the search of the keyword having to succeed.
C27_WrittenOnlyByCycleSelecting ==
    [][\A i \in 1..Len(tables.keywords) :
            RotationFieldsWrittenAt(i) =>
                CommittedCycleSelecting(tables.keywords[i].id)]_vars

\* A committed cycle in which the search of a selected keyword failed, after
\* a status update and a channel fetch.
C27_Reached ==
    /\ fetch.result.status = "committed"
    /\ \E i \in FailedSearches :
            RowOf(tables, fetch.result.selected[i]).fetch_count
                > RowOf(fetch.before, fetch.result.selected[i]).fetch_count
    /\ channels # {}
    /\ \E i \in 1..Len(tables.keywords) : tables.keywords[i].status # SmallPool[i].status


(***************************************************************************)
(* C28: the table holds at most one VideoScore per video over all          *)
(* campaigns, and score_video called for a video that has a score under a  *)
(* different campaign finds no record, meets the conflict on its insert,   *)
(* re-reads nothing, raises, and leaves the existing record unchanged.     *)
(***************************************************************************)
OnePerVideo == \A r1 \in scores, r2 \in scores : r1.video_id = r2.video_id => r1 = r2

\* The video of process p's call has a score under another campaign.
ScoredUnderOtherCampaign(p) ==
    \E r \in scores : r.video_id = cur[p].video /\ r.campaign_id # cur[p].campaign

OtherCampaignStep(p) ==
    /\ (pc[p] = "commit" /\ ScoredUnderOtherCampaign(p)) =>
            /\ cur[p].pending = "insert"
            /\ (pc'[p] # "commit" /\ ~BindError(cur[p].payload)) =>
                    /\ pc'[p] = "conflict"
                    /\ scores' = scores
    /\ (pc[p] = "conflict" /\ pc'[p] # "conflict" /\ ScoredUnderOtherCampaign(p)) =>
            /\ out'[p].status = "raised"
            /\ out'[p].error = "IntegrityError"
            /\ scores' = scores

C28_OnePerVideoOtherCampaignRaises ==
    []OnePerVideo /\ [][\A p \in Procs : OtherCampaignStep(p)]_vars

\* A call raised the conflict while the video's record, written for the
\* campaign of the video by an earlier call, is as that call left it.
C28_Witness ==
    \E p \in Procs :
        /\ out[p].status = "raised"
        /\ out[p].error = "IntegrityError"
        /\ out[p].conflicted
        /\ \E r \in scores :
              /\ r.video_id = out[p].video
              /\ r.payload = lastOk[out[p].video]


(***************************************************************************)
(* C29: in every persisted VideoScore, on the model path as well as on the *)
(* fallback path, brand_safety_status = unsafe implies                     *)
(* targeting_recommendation = avoid and suggested_bid_modifier = 0.0.      *)
(***************************************************************************)
UnsafeIsAvoided(payload) ==
    payload.brand_safety_status = "unsafe" =>
        /\ payload.targeting_recommendation = "avoid"
        /\ payload.suggested_bid_modifier = 0

C29_UnsafeIsAvoided == \A r \in scores : UnsafeIsAvoided(r.payload)

\* The same for the payloads of _fallback_payload and for the answers of
\* the model that carry no recommendation of the vocabulary.
C29_UnsafeIsAvoidedByTable ==
    /\ nmPhase = "fallback" => UnsafeIsAvoided(nmFallback)
    /\ (nmPhase # "input" /\ nmOut.raised = "none" /\ RecommendationUnmatched) =>
            UnsafeIsAvoided(nmOut.payload)

\* An unsafe payload of _fallback_payload, and an unsafe one of
\* _payload_from_llm that the decision table decided.
C29_Reached ==
    /\ nmPhase = "fallback"
    /\ nmFallback.brand_safety_status = "unsafe"
    /\ RecommendationUnmatched
    /\ nmOut.raised = "none"
    /\ nmOut.payload.brand_safety_status = "unsafe"


(***************************************************************************)
(* C30: a fetch cycle in which the searches return no video id at all      *)
(* returns early without committing: last_fetched_at, fetch_count and      *)
(* total_results of the selected keywords stay as they were although the   *)
(* searches ran, and the next cycle over the same keywords selects exactly *)
(* the same keywords.                                                      *)
(***************************************************************************)
NoVideoCycle == fetch.result.status = "no_videos"

SearchesRan ==
    /\ Len(fetch.result.selected) > 0
    /\ ~fetch.result.search.raised
    /\ fetch.result.search.searched = Len(fetch.result.selected)

NothingWritten ==
    /\ tables = fetch.before
    /\ fetch.result.new_videos = {}
    /\ \A id \in Range(fetch.result.selected) :
            RotationFields(RowOf(tables, id)) = RotationFields(RowOf(fetch.before, id))

C30_NoVideoCycleRepeats ==
    /\ [](NoVideoCycle => (SearchesRan /\ NothingWritten))
    /\ [][NoVideoCycle => fetch'.result.selected = fetch.result.selected]_vars

\* A cycle without videos after a committed one: every search was answered,
\* with no id, and the keywords are what the first cycle left.
C30_Witness ==
    /\ NoVideoCycle
    /\ clock > 0
    /\ SearchesRan
    /\ \A i \in 1..Len(fetch.result.answers) : fetch.result.answers[i].kind = "items"
    /\ NothingWritten
    /\ \E id \in Range(fetch.result.selected) : RowOf(tables, id).fetch_count = 0
    /\ \E i \in 1..Len(tables.keywords) : tables.keywords[i].fetch_count > 0

====
